---- MODULE Spec2Model ----
(***************************************************************************)
(* File-system watcher of zeami4 (src-tauri/src/watcher): configuration,   *)
(* event filter, event model and the WatcherService state machine with its *)
(* dispatch tasks and debounce callback.                                   *)
(*                                                                         *)
(* Strings of the program (paths, patterns) are sequences of one-character *)
(* strings, so that contains / starts_with / ends_with are computed on the *)
(* characters as the code computes them.                                   *)
(***************************************************************************)
EXTENDS Integers, Sequences, FiniteSets, TLC

(***************************************************************************)
(* Bounds of the model.                                                    *)
(***************************************************************************)
\* configured targets per WatchConfig
MaxTargets == 2
\* start() attempts that get as far as creating a channel
MaxStarts == 2
\* invocations of the debounce callback
MaxCallbacks == 2
\* raw changes (or raw errors) handed to one callback invocation
MaxBurst == 2
\* emit_all calls that return an error
MaxEmitFailures == 1
\* start() attempts and callback invocations together, in one behaviour
MaxOps == 3
\* events of a batch handed to split_by_priority on its own
MaxBatch == 3
\* rules of a filter made with_rules
MaxRules == 3

(***************************************************************************)
(* str: the string operations the code uses.                               *)
(***************************************************************************)
StartsWith(s, p) ==
    /\ Len(p) <= Len(s)
    /\ SubSeq(s, 1, Len(p)) = p

EndsWith(s, p) ==
    /\ Len(p) <= Len(s)
    /\ SubSeq(s, Len(s) - Len(p) + 1, Len(s)) = p

Contains(s, p) ==
    \E i \in 1..(Len(s) - Len(p) + 1) : SubSeq(s, i, i + Len(p) - 1) = p

\* Path::components ignores trailing separators and trailing "." components
RECURSIVE TrimPathEnd(_)
TrimPathEnd(s) ==
    IF s = <<>> THEN s
    ELSE IF s[Len(s)] = "/" THEN TrimPathEnd(SubSeq(s, 1, Len(s) - 1))
    ELSE IF Len(s) >= 2 /\ SubSeq(s, Len(s) - 1, Len(s)) = <<"/", ".">>
         THEN TrimPathEnd(SubSeq(s, 1, Len(s) - 2))
    ELSE s

LastSlash(s) ==
    LET at == {i \in 1..Len(s) : s[i] = "/"}
    IN  IF at = {} THEN 0 ELSE CHOOSE i \in at : \A j \in at : j <= i

\* Path::new(path).file_name().and_then(|f| f.to_str()).unwrap_or("")
FileName(s) ==
    LET t == TrimPathEnd(s)
        f == SubSeq(t, LastSlash(t) + 1, Len(t))
    IN  IF f \in {<<".", ".">>, <<".">>} THEN <<>> ELSE f

(***************************************************************************)
(* filter.rs: FilterRule and EventFilter.                                  *)
(***************************************************************************)
MatchType == {"Contains", "Extension", "StartsWith", "EndsWith", "Regex"}

FilterKind ==
    {"BuildArtifact", "TemporaryFile", "LockFile", "IDE", "OSFile",
     "GitInternal", "LogFile", "TestArtifact", "Hidden", "Custom"}

rule_contains(pattern, kind) ==
    [kind |-> kind, pattern |-> pattern, match_type |-> "Contains",
     exceptions |-> <<>>]

rule_extension(ext, kind) ==
    [kind |-> kind,
     pattern |-> IF StartsWith(ext, <<".">>) THEN ext ELSE <<".">> \o ext,
     match_type |-> "Extension", exceptions |-> <<>>]

rule_starts_with(pattern, kind) ==
    [kind |-> kind, pattern |-> pattern, match_type |-> "StartsWith",
     exceptions |-> <<>>]

rule_ends_with(pattern, kind) ==
    [kind |-> kind, pattern |-> pattern, match_type |-> "EndsWith",
     exceptions |-> <<>>]

\* faulty variant: the exceptions handed to the builder are lost
rule_exceptions_ignored(rule, exceptions) == rule

rule_exceptions(rule, exceptions) ==
    [rule EXCEPT !.exceptions = exceptions]

\* faulty variant: StartsWith looks at the whole path, component by component
matches_starts_with_any_component(rule, path) ==
    IF \E k \in 1..Len(rule.exceptions) : Contains(path, rule.exceptions[k])
    THEN FALSE
    ELSE CASE rule.match_type = "Contains"   -> Contains(path, rule.pattern)
           [] rule.match_type = "Extension"  -> EndsWith(path, rule.pattern)
           [] rule.match_type = "StartsWith" ->
                  \/ StartsWith(path, rule.pattern)
                  \/ Contains(path, <<"/">> \o rule.pattern)
           [] rule.match_type = "EndsWith"   -> EndsWith(path, rule.pattern)
           [] rule.match_type = "Regex"      -> FALSE

\* faulty variant: the exceptions are not looked at
matches_without_exceptions(rule, path) ==
    CASE rule.match_type = "Contains"   -> Contains(path, rule.pattern)
      [] rule.match_type = "Extension"  -> EndsWith(path, rule.pattern)
      [] rule.match_type = "StartsWith" ->
             StartsWith(FileName(path), rule.pattern)
      [] rule.match_type = "EndsWith"   -> EndsWith(path, rule.pattern)
      [] rule.match_type = "Regex"      -> FALSE

\* faulty variant: the exceptions are looked for in the file name only
matches_exceptions_in_file_name(rule, path) ==
    IF \E k \in 1..Len(rule.exceptions) :
           Contains(FileName(path), rule.exceptions[k])
    THEN FALSE
    ELSE CASE rule.match_type = "Contains"   -> Contains(path, rule.pattern)
           [] rule.match_type = "Extension"  -> EndsWith(path, rule.pattern)
           [] rule.match_type = "StartsWith" ->
                  StartsWith(FileName(path), rule.pattern)
           [] rule.match_type = "EndsWith"   -> EndsWith(path, rule.pattern)
           [] rule.match_type = "Regex"      -> FALSE

\* FilterRule::matches
matches(rule, path) ==
    IF \E k \in 1..Len(rule.exceptions) : Contains(path, rule.exceptions[k])
    THEN FALSE
    ELSE CASE rule.match_type = "Contains"   -> Contains(path, rule.pattern)
           [] rule.match_type = "Extension"  -> EndsWith(path, rule.pattern)
           [] rule.match_type = "StartsWith" ->
                  StartsWith(FileName(path), rule.pattern)
           [] rule.match_type = "EndsWith"   -> EndsWith(path, rule.pattern)
           [] rule.match_type = "Regex"      -> FALSE

\* EventFilter::default_rules
default_rules ==
    << rule_contains(<<"n", "o", "d", "e", "_", "m", "o", "d", "u", "l", "e", "s">>, "BuildArtifact"),
       rule_contains(<<"/", "t", "a", "r", "g", "e", "t", "/">>, "BuildArtifact"),
       rule_contains(<<"/", "d", "i", "s", "t", "/">>, "BuildArtifact"),
       rule_contains(<<"/", "b", "u", "i", "l", "d", "/">>, "BuildArtifact"),
       rule_contains(<<"/", ".", "n", "e", "x", "t", "/">>, "BuildArtifact"),
       rule_contains(<<"/", "o", "u", "t", "/">>, "BuildArtifact"),
       rule_extension(<<"t", "m", "p">>, "TemporaryFile"),
       rule_extension(<<"t", "e", "m", "p">>, "TemporaryFile"),
       rule_extension(<<"s", "w", "p">>, "TemporaryFile"),
       rule_extension(<<"s", "w", "o">>, "TemporaryFile"),
       rule_starts_with(<<"~">>, "TemporaryFile"),
       rule_exceptions(rule_starts_with(<<".">>, "Hidden"),
                       << <<".", "c", "l", "a", "u", "d", "e">>, <<".", "g", "i", "t">>, <<".", "e", "n", "v">>,
                          <<".", "g", "i", "t", "i", "g", "n", "o", "r", "e">>, <<".", "g", "i", "t", "h", "u", "b">> >>),
       rule_ends_with(<<"p", "a", "c", "k", "a", "g", "e", "-", "l", "o", "c", "k", ".", "j", "s", "o", "n">>, "LockFile"),
       rule_ends_with(<<"y", "a", "r", "n", ".", "l", "o", "c", "k">>, "LockFile"),
       rule_ends_with(<<"p", "n", "p", "m", "-", "l", "o", "c", "k", ".", "y", "a", "m", "l">>, "LockFile"),
       rule_ends_with(<<"C", "a", "r", "g", "o", ".", "l", "o", "c", "k">>, "LockFile"),
       rule_contains(<<"/", ".", "i", "d", "e", "a", "/">>, "IDE"),
       rule_contains(<<"/", ".", "v", "s", "c", "o", "d", "e", "/">>, "IDE"),
       rule_contains(<<"/", ".", "v", "s", "/">>, "IDE"),
       rule_extension(<<"i", "m", "l">>, "IDE"),
       rule_ends_with(<<".", "D", "S", "_", "S", "t", "o", "r", "e">>, "OSFile"),
       rule_ends_with(<<"T", "h", "u", "m", "b", "s", ".", "d", "b">>, "OSFile"),
       rule_ends_with(<<"d", "e", "s", "k", "t", "o", "p", ".", "i", "n", "i">>, "OSFile"),
       rule_contains(<<"/", ".", "g", "i", "t", "/", "o", "b", "j", "e", "c", "t", "s", "/">>, "GitInternal"),
       rule_contains(<<"/", ".", "g", "i", "t", "/", "l", "o", "g", "s", "/">>, "GitInternal"),
       rule_extension(<<"l", "o", "g">>, "LogFile"),
       rule_contains(<<"/", "t", "e", "s", "t", "-", "r", "e", "s", "u", "l", "t", "s", "/">>, "TestArtifact"),
       rule_contains(<<"/", "p", "l", "a", "y", "w", "r", "i", "g", "h", "t", "-", "r", "e", "p", "o", "r", "t", "/">>, "TestArtifact"),
       rule_contains(<<"/", "c", "o", "v", "e", "r", "a", "g", "e", "/">>, "TestArtifact") >>

\* EventFilter::should_watch: the loop over the rules, from rule i on
RECURSIVE should_watch_from(_, _, _)
should_watch_from(rules, path, i) ==
    IF i > Len(rules) THEN TRUE
    ELSE IF matches(rules[i], path) THEN FALSE
    ELSE should_watch_from(rules, path, i + 1)

\* faulty variant: the loop stops after the first rule
should_watch_first_rule_only(rules, path) ==
    rules = <<>> \/ ~matches(rules[1], path)

\* faulty variant: an exception of any rule makes every rule inert
should_watch_exception_allows(rules, path) ==
    \/ \E i \in DOMAIN rules : \E k \in DOMAIN rules[i].exceptions :
          Contains(path, rules[i].exceptions[k])
    \/ should_watch_from(rules, path, 1)

\* EventFilter::should_watch
should_watch(rules, path) == should_watch_from(rules, path, 1)

(***************************************************************************)
(* events.rs: WatchEventKind, WatchEvent, WatchEventBatch.                 *)
(***************************************************************************)
WatchEventKind ==
    {"Created", "Modified", "Deleted", "Renamed", "ClaudeStateChanged",
     "SourceChanged", "ConfigChanged", "GitCommit", "MetadataChanged", "Other"}

\* WatchEventKind::to_string
kind_to_string(kind) ==
    CASE kind = "Created"            -> "created"
      [] kind = "Modified"           -> "modified"
      [] kind = "Deleted"            -> "deleted"
      [] kind = "Renamed"            -> "renamed"
      [] kind = "ClaudeStateChanged" -> "claude_state_changed"
      [] kind = "SourceChanged"      -> "source_changed"
      [] kind = "ConfigChanged"      -> "config_changed"
      [] kind = "GitCommit"          -> "git_commit"
      [] kind = "MetadataChanged"    -> "metadata_changed"
      [] kind = "Other"              -> "other"

\* faulty variant: the extensions are looked at before the git rule
classify_by_path_extension_first(base_kind, path) ==
    IF Contains(path, <<"/", ".", "c", "l", "a", "u", "d", "e", "/">>) THEN "ClaudeStateChanged"
    ELSE IF \/ EndsWith(path, <<".", "t", "o", "m", "l">>)
            \/ EndsWith(path, <<".", "j", "s", "o", "n">>)
            \/ EndsWith(path, <<".", "y", "a", "m", "l">>)
            \/ EndsWith(path, <<".", "y", "m", "l">>)
            \/ EndsWith(path, <<".", "e", "n", "v">>)
         THEN "ConfigChanged"
    ELSE IF \/ EndsWith(path, <<".", "r", "s">>)
            \/ EndsWith(path, <<".", "t", "s">>)
            \/ EndsWith(path, <<".", "t", "s", "x">>)
            \/ EndsWith(path, <<".", "j", "s">>)
            \/ EndsWith(path, <<".", "j", "s", "x">>)
         THEN "SourceChanged"
    ELSE IF \/ Contains(path, <<"/", ".", "g", "i", "t", "/", "r", "e", "f", "s", "/", "h", "e", "a", "d", "s", "/">>)
            \/ Contains(path, <<"/", ".", "g", "i", "t", "/", "H", "E", "A", "D">>)
         THEN "GitCommit"
    ELSE base_kind

\* WatchEventKind::classify_by_path
classify_by_path(base_kind, path) ==
    IF Contains(path, <<"/", ".", "c", "l", "a", "u", "d", "e", "/">>) THEN "ClaudeStateChanged"
    ELSE IF \/ Contains(path, <<"/", ".", "g", "i", "t", "/", "r", "e", "f", "s", "/", "h", "e", "a", "d", "s", "/">>)
            \/ Contains(path, <<"/", ".", "g", "i", "t", "/", "H", "E", "A", "D">>)
         THEN "GitCommit"
    ELSE IF \/ EndsWith(path, <<".", "t", "o", "m", "l">>)
            \/ EndsWith(path, <<".", "j", "s", "o", "n">>)
            \/ EndsWith(path, <<".", "y", "a", "m", "l">>)
            \/ EndsWith(path, <<".", "y", "m", "l">>)
            \/ EndsWith(path, <<".", "e", "n", "v">>)
         THEN "ConfigChanged"
    ELSE IF \/ EndsWith(path, <<".", "r", "s">>)
            \/ EndsWith(path, <<".", "t", "s">>)
            \/ EndsWith(path, <<".", "t", "s", "x">>)
            \/ EndsWith(path, <<".", "j", "s">>)
            \/ EndsWith(path, <<".", "j", "s", "x">>)
         THEN "SourceChanged"
    ELSE base_kind

\* WatchEvent::new; the timestamp (wall clock) is not modelled.  id is
\* history only: <<batch number, index in the batch>> once the event is sent.
WatchEvent_new(kind, paths, source) ==
    [kind |-> kind, paths |-> paths, source |-> source,
     metadata |-> "None", id |-> <<0, 0>>]

\* WatchEvent::is_high_priority
is_high_priority(event) ==
    event.kind \in {"ClaudeStateChanged", "GitCommit"}

\* WatchEvent::to_payload
to_payload(event) ==
    [event_type |-> kind_to_string(event.kind), paths |-> event.paths,
     source |-> event.source, metadata |-> event.metadata, id |-> event.id]

\* WatchEventBatch::new; batch_timestamp (wall clock) is not modelled
WatchEventBatch_new(events) ==
    [events |-> events, total_events |-> Len(events)]

\* WatchEventBatch::is_empty
batch_is_empty(batch) == batch.events = <<>>

\* faulty variant: the two partitions come back in the wrong order
split_by_priority_swapped(batch) ==
    << SelectSeq(batch.events, LAMBDA e : ~is_high_priority(e)),
       SelectSeq(batch.events, LAMBDA e : is_high_priority(e)) >>

\* faulty variant: the high-priority events come back newest first
split_by_priority_reversed(batch) ==
    LET high == SelectSeq(batch.events, LAMBDA e : is_high_priority(e))
    IN  << [k \in DOMAIN high |-> high[Len(high) + 1 - k]],
           SelectSeq(batch.events, LAMBDA e : ~is_high_priority(e)) >>

\* WatchEventBatch::split_by_priority: Iterator::partition keeps the order
split_by_priority(batch) ==
    << SelectSeq(batch.events, LAMBDA e : is_high_priority(e)),
       SelectSeq(batch.events, LAMBDA e : ~is_high_priority(e)) >>

(***************************************************************************)
(* config.rs: WatchConfig.                                                 *)
(***************************************************************************)
\* faulty variant: the upper limit itself is rejected
validate_rejects_limit(cfg) ==
    IF cfg.targets = <<>> THEN "no_targets"
    ELSE IF cfg.debounce_ms = 0 THEN "debounce_zero"
    ELSE IF cfg.debounce_ms >= 10000 THEN "debounce_too_long"
    ELSE "ok"

\* WatchConfig::validate: "ok" or the error
validate(cfg) ==
    IF cfg.targets = <<>> THEN "no_targets"
    ELSE IF cfg.debounce_ms = 0 THEN "debounce_zero"
    ELSE IF cfg.debounce_ms > 10000 THEN "debounce_too_long"
    ELSE "ok"

(***************************************************************************)
(* service.rs: pure helpers.                                               *)
(***************************************************************************)
\* faulty variant: the /.git/ branch is missing
determine_source_without_git(path) ==
    IF Contains(path, <<"/", ".", "c", "l", "a", "u", "d", "e", "/">>) THEN "claude"
    ELSE IF Contains(path, <<"/", "s", "r", "c", "/">>) THEN "source"
    ELSE IF Contains(path, <<"/", "t", "e", "s", "t", "s", "/">>) THEN "tests"
    ELSE "project"

\* faulty variant: /tests/ is looked for before /src/, /.git/ before
\* /.claude/
determine_source_other_order(path) ==
    IF Contains(path, <<"/", ".", "g", "i", "t", "/">>) THEN "git"
    ELSE IF Contains(path, <<"/", ".", "c", "l", "a", "u", "d", "e", "/">>) THEN "claude"
    ELSE IF Contains(path, <<"/", "t", "e", "s", "t", "s", "/">>) THEN "tests"
    ELSE IF Contains(path, <<"/", "s", "r", "c", "/">>) THEN "source"
    ELSE "project"

\* faulty variant: the /src/ and /tests/ branches are missing
determine_source_without_dirs(path) ==
    IF Contains(path, <<"/", ".", "c", "l", "a", "u", "d", "e", "/">>) THEN "claude"
    ELSE IF Contains(path, <<"/", ".", "g", "i", "t", "/">>) THEN "git"
    ELSE "project"

\* WatcherService::determine_source
determine_source(path) ==
    IF Contains(path, <<"/", ".", "c", "l", "a", "u", "d", "e", "/">>) THEN "claude"
    ELSE IF Contains(path, <<"/", ".", "g", "i", "t", "/">>) THEN "git"
    ELSE IF Contains(path, <<"/", "s", "r", "c", "/">>) THEN "source"
    ELSE IF Contains(path, <<"/", "t", "e", "s", "t", "s", "/">>) THEN "tests"
    ELSE "project"

(***************************************************************************)
(* Inputs of the model.                                                    *)
(***************************************************************************)
\* WatchTarget: only `recursive` is read by the service
\* the target lists tried: the first n of a list that alternates recursive
\* and non-recursive targets (as WatchConfig::default mixes both)
Targets ==
    {[t \in 1..n |-> [recursive |-> (t % 2 = 1)]] : n \in 0..MaxTargets}

\* WatchConfig: the fields start() reads
Configs ==
    [targets : Targets, debounce_ms : {0, 100, 10001}]

\* what start() finds at a target's resolved path: path.exists() is false,
\* watch() succeeds, or watch() fails
FsStates == {"missing", "ok", "denied"}

PathClaudeState == <<"/", "p", "/", ".", "c", "l", "a", "u", "d", "e", "/", "s", ".", "j", "s", "o", "n">>
PathSrcMain == <<"/", "p", "/", "s", "r", "c", "/", "a", ".", "r", "s">>
PathNodeModules == <<"/", "p", "/", "n", "o", "d", "e", "_", "m", "o", "d", "u", "l", "e", "s", "/", "x", ".", "j", "s">>

\* notify::Event as the callback reads it: kind and paths
RawChanges ==
    { [kind |-> "Modify", paths |-> <<PathClaudeState>>],
      [kind |-> "Create", paths |-> <<PathSrcMain>>],
      [kind |-> "Modify", paths |-> <<PathNodeModules>>],
      [kind |-> "Access", paths |-> <<PathSrcMain>>] }

\* DebounceEventResult: Ok(events) of one coalesced burst
Bursts ==
    UNION {[1..n -> RawChanges] : n \in 1..MaxBurst}

PathReadme == <<"/", "p", "/", "R", "E", "A", "D", "M", "E", ".", "m", "d">>
PathCargoToml == <<"/", "p", "/", "C", "a", "r", "g", "o", ".", "t", "o", "m", "l">>
PathGitRef == <<"/", "p", "/", ".", "g", "i", "t", "/", "r", "e", "f", "s", "/", "h", "e", "a", "d", "s", "/", "m", "a", "i", "n">>
PathGitObjects == <<"/", "p", "/", ".", "g", "i", "t", "/", "o", "b", "j", "e", "c", "t", "s", "/", "a", "b">>

\* notify::Event values of more shapes: several paths of which the filter
\* rejects none, some or all, no path at all, every kind of change
WideChanges ==
    RawChanges \cup
    { [kind |-> "Access", paths |-> <<PathNodeModules>>],
      [kind |-> "Remove", paths |-> <<PathNodeModules, PathReadme>>],
      [kind |-> "Modify", paths |-> <<PathGitObjects, PathNodeModules>>],
      [kind |-> "Any", paths |-> <<PathGitRef, PathSrcMain>>],
      [kind |-> "Modify", paths |-> <<PathCargoToml>>],
      [kind |-> "Remove", paths |-> <<<<"/", "p", "/", "t", "e", "s", "t", "s", "/", "t", ".", "r", "s">>>>],
      [kind |-> "Create", paths |-> <<<<"/", "p", "/", "s", "r", "c", "/", "t", "e", "s", "t", "s", "/", "t", ".", "r", "s">>, PathClaudeState>>],
      [kind |-> "Other", paths |-> <<>>] }

\* DebounceEventResult: Ok(events) over the changes of more shapes
WideBursts ==
    UNION {[1..n -> WideChanges] : n \in 1..MaxBurst}

(***************************************************************************)
(* State.                                                                  *)
(***************************************************************************)
VARIABLES
    config,      \* WatcherService.config
    fs,          \* target index -> FsStates, as the current start() finds it
    running,     \* WatcherService.running (shared with the dispatch tasks)
    event_tx,    \* WatcherService.event_tx: 0 (None) or the channel's number
    debouncer,   \* WatcherService.debouncer: 0 (None) or the debouncer's number
    chan,        \* channel number -> channel, its dispatch task, its debouncer
    stats,       \* WatcherStats
    pc,          \* position of the caller inside start(): "idle" outside
    cur,         \* channel number of the start() in progress
    ti,          \* target index of the registration loop
    watchCalls,  \* history: the watch() calls of the latest start()
    ret,         \* history: latest call of start()/stop() and its result
    sent,        \* history: batches put on a channel, in order
    emitted,     \* history: payloads handed to emit_all, in order
    lastResult,  \* history: the DebounceEventResult of the latest callback
    probe,       \* a function under examination, its argument and result
    watcher_state  \* the command layer's WatcherState and the lock on it

vars ==
    <<config, fs, running, event_tx, debouncer, chan, stats, pc, cur, ti,
      watchCalls, ret, sent, emitted, lastResult, probe, watcher_state>>

Channels == 1..MaxStarts

\* no callback has been invoked yet
NoResult == [ok |-> TRUE, events |-> <<>>, errors |-> 0]

\* no function is under examination
NoProbe == [fn |-> "none", done |-> TRUE]

\* commands.rs line 15: Mutex<Option<WatcherService>>.  held: the Option is
\* Some; locked: a start command holds the lock while service.start() runs;
\* first: the first channel of the instance whose fields the variables
\* hold, every earlier channel belonging to an instance dropped before
NoWatcher == [held |-> FALSE, locked |-> FALSE, first |-> 1]

NoChannel ==
    [task |-> "none", queue |-> <<>>, cb |-> FALSE, high |-> <<>>,
     normal |-> <<>>, deb |-> "none", watches |-> {}]

Init ==
    /\ config \in Configs
    /\ fs = [t \in 1..Len(config.targets) |-> "missing"]
    /\ running = FALSE
    /\ event_tx = 0
    /\ debouncer = 0
    /\ chan = [c \in Channels |-> NoChannel]
    /\ stats = [raw_events |-> 0, processed_events |-> 0,
                filtered_events |-> 0, events_emitted |-> 0, errors |-> 0]
    /\ pc = "idle"
    /\ cur = 0
    /\ ti = 0
    /\ watchCalls = <<>>
    /\ ret = [call |-> "new", result |-> "ok"]
    /\ sent = <<>>
    /\ emitted = <<>>
    /\ lastResult = NoResult
    /\ probe = NoProbe
    /\ watcher_state = NoWatcher

\* channels created so far
Created == {c \in Channels : chan[c].task # "none"}

\* start() attempts that created a channel, plus callback invocations
Ops == Cardinality(Created) + stats.raw_events

\* faulty variant: every task writes the flag and the counters that the
\* variables hold, whichever instance created it
Mine_WhateverInstance(c) == c >= 1

\* lines 111-113, 149: the task and the callback of channel c hold clones of the
\* running flag and of the counters of the instance that created them; they
\* are the fields the variables hold unless that instance was dropped and a
\* new one constructed
Mine(c) == c >= watcher_state.first

\* the senders of channel c: the service's clone and the callback's tx
SenderCount(c) ==
    (IF event_tx = c THEN 1 ELSE 0) + (IF chan[c].cb THEN 1 ELSE 0)

\* Drop for Debouncer: the OS watches go with it; its thread, and with it the
\* callback closure holding tx, ends later
drop_debouncer(ch, d) ==
    IF d = 0 THEN ch
    ELSE [ch EXCEPT ![d].deb = "dropped", ![d].watches = {}]

(***************************************************************************)
(* WatcherService::start                                                   *)
(***************************************************************************)
\* faulty variant: the running flag is not looked at
start_precheck_ignores_running(isRunning, cfg) ==
    IF validate(cfg) # "ok" THEN "invalid_config" ELSE "ok"

\* faulty variant: the configuration is not validated
start_precheck_skips_validate(isRunning, cfg) ==
    IF isRunning THEN "already_running" ELSE "ok"

\* lines 97-104: the two checks start() makes before it acquires anything
start_precheck(isRunning, cfg) ==
    IF isRunning THEN "already_running"
    ELSE IF validate(cfg) # "ok" THEN "invalid_config"
    ELSE "ok"

\* lines 96-144: the checks, the channel, the spawn of the dispatch task
StartEnter ==
    /\ pc = "idle"
    /\ LET check == start_precheck(running, config)
       IN IF check # "ok"
          THEN /\ ret' = [call |-> "start", result |-> check]
               /\ UNCHANGED <<fs, event_tx, chan, pc, cur, ti, watchCalls>>
          ELSE \E c \in Channels, f \in [1..Len(config.targets) -> FsStates] :
               /\ c = Cardinality(Created) + 1
               /\ Ops < MaxOps
               /\ fs' = f
               /\ event_tx' = c
               /\ chan' = [chan EXCEPT ![c].task = "recv"]
               /\ pc' = "new_debouncer"
               /\ cur' = c
               /\ ti' = 0
               /\ watchCalls' = <<>>
               /\ ret' = [call |-> "start", result |-> "pending"]
    /\ UNCHANGED <<config, running, debouncer, stats, sent, emitted,
                   lastResult, probe, watcher_state>>

\* lines 146-216: new_debouncer(...) succeeds, the closure owning tx
StartNewDebouncer ==
    /\ pc = "new_debouncer"
    /\ chan' = [chan EXCEPT ![cur].deb = "live", ![cur].cb = TRUE]
    /\ pc' = "watch"
    /\ ti' = 1
    /\ UNCHANGED <<config, fs, running, event_tx, debouncer, stats, cur,
                   watchCalls, ret, sent, emitted, lastResult, probe,
                   watcher_state>>

\* line 216: new_debouncer(...) fails and start() returns the error.  The
\* closure, and the tx it owns, was handed to new_debouncer: it goes away
\* with whatever new_debouncer had set up (CallbackDropped), while the
\* clone in self.event_tx and the spawned task stay
StartNewDebouncerFails ==
    /\ pc = "new_debouncer"
    /\ chan' = [chan EXCEPT ![cur].deb = "dropped", ![cur].cb = TRUE]
    /\ pc' = "idle"
    /\ ret' = [call |-> "start", result |-> "new_debouncer_failed"]
    /\ UNCHANGED <<config, fs, running, event_tx, debouncer, stats, cur, ti,
                   watchCalls, sent, emitted, lastResult, probe,
                   watcher_state>>

\* faulty variant: every target is watched recursively
recursive_mode_always(target) == "Recursive"

\* lines 227-231: the target's RecursiveMode
recursive_mode(target) ==
    IF target.recursive THEN "Recursive" ELSE "NonRecursive"

\* faulty variant: a failed watch() is logged and the loop goes on
StartWatchTarget_ErrorIgnored ==
    /\ pc = "watch"
    /\ ti <= Len(config.targets)
    /\ LET call == [target |-> ti,
                    mode |-> IF config.targets[ti].recursive THEN "Recursive"
                             ELSE "NonRecursive"]
       IN IF fs[ti] = "ok"
          THEN /\ chan' = [chan EXCEPT ![cur].watches = @ \cup {call}]
               /\ watchCalls' = Append(watchCalls, call)
          ELSE UNCHANGED <<chan, watchCalls>>
    /\ ti' = ti + 1
    /\ UNCHANGED <<config, fs, running, event_tx, debouncer, stats, pc, cur,
                   ret, sent, emitted, lastResult, probe, watcher_state>>

\* faulty variant: a missing path is an error like a failed watch()
StartWatchTarget_MissingFatal ==
    /\ pc = "watch"
    /\ ti <= Len(config.targets)
    /\ LET call == [target |-> ti,
                    mode |-> IF config.targets[ti].recursive THEN "Recursive"
                             ELSE "NonRecursive"]
       IN IF fs[ti] = "ok"
          THEN /\ chan' = [chan EXCEPT ![cur].watches = @ \cup {call}]
               /\ watchCalls' = Append(watchCalls, call)
               /\ ti' = ti + 1
               /\ UNCHANGED <<pc, ret>>
          ELSE /\ chan' = drop_debouncer(chan, cur)
               /\ pc' = "idle"
               /\ ret' = [call |-> "start", result |-> "watch_failed"]
               /\ UNCHANGED <<ti, watchCalls>>
    /\ UNCHANGED <<config, fs, running, event_tx, debouncer, stats, cur, sent,
                   emitted, lastResult, probe, watcher_state>>

\* lines 219-242: one iteration of the loop over the targets
StartWatchTarget ==
    /\ pc = "watch"
    /\ ti <= Len(config.targets)
    /\ LET target == config.targets[ti]
           call == [target |-> ti, mode |-> recursive_mode(target)]
       IN CASE fs[ti] = "missing" ->
                 /\ ti' = ti + 1
                 /\ UNCHANGED <<chan, pc, ret, watchCalls>>
            [] fs[ti] = "ok" ->
                 /\ chan' = [chan EXCEPT ![cur].watches = @ \cup {call}]
                 /\ watchCalls' = Append(watchCalls, call)
                 /\ ti' = ti + 1
                 /\ UNCHANGED <<pc, ret>>
            [] fs[ti] = "denied" ->
                 /\ chan' = drop_debouncer(chan, cur)
                 /\ watchCalls' = Append(watchCalls, call)
                 /\ pc' = "idle"
                 /\ ret' = [call |-> "start", result |-> "watch_failed"]
                 /\ UNCHANGED ti
    /\ UNCHANGED <<config, fs, running, event_tx, debouncer, stats, cur, sent,
                   emitted, lastResult, probe, watcher_state>>

\* lines 244-248: after the loop
StartFinish ==
    /\ pc = "watch"
    /\ ti > Len(config.targets)
    /\ chan' = IF debouncer = cur THEN chan ELSE drop_debouncer(chan, debouncer)
    /\ debouncer' = cur
    /\ running' = TRUE
    /\ pc' = "idle"
    /\ ret' = [call |-> "start", result |-> "ok"]
    /\ UNCHANGED <<config, fs, event_tx, stats, cur, ti, watchCalls, sent,
                   emitted, lastResult, probe, watcher_state>>

(***************************************************************************)
(* WatcherService::stop                                                    *)
(***************************************************************************)
\* faulty variant: stop() without the early return for a stopped instance
stop_no_early_return(s) ==
    [running |-> FALSE, debouncer |-> 0, event_tx |-> 0,
     chan |-> drop_debouncer(s.chan, s.debouncer)]

\* lines 252-263: what stop() makes of the fields it reads and writes
stop(s) ==
    IF ~s.running THEN s
    ELSE [running |-> FALSE, debouncer |-> 0, event_tx |-> 0,
          chan |-> drop_debouncer(s.chan, s.debouncer)]

\* the fields of the instance that stop() reads or writes
StopFields ==
    [running |-> running, debouncer |-> debouncer, event_tx |-> event_tx,
     chan |-> chan]

\* faulty variant: stop() also zeroes the counters
Stop_ResetsStats ==
    /\ pc = "idle"
    /\ LET s == stop(StopFields)
       IN  /\ running' = s.running
           /\ debouncer' = s.debouncer
           /\ event_tx' = s.event_tx
           /\ chan' = s.chan
    /\ stats' = [raw_events |-> 0, processed_events |-> 0,
                 filtered_events |-> 0, events_emitted |-> 0, errors |-> 0]
    /\ ret' = [call |-> "stop", result |-> "ok"]
    /\ UNCHANGED <<config, fs, pc, cur, ti, watchCalls, sent, emitted,
                   lastResult, probe, watcher_state>>

\* lines 252-263: a call of stop(); Drop for WatcherService (lines 302-306)
\* makes the same call
Stop ==
    /\ pc = "idle"
    /\ LET s == stop(StopFields)
       IN  /\ running' = s.running
           /\ debouncer' = s.debouncer
           /\ event_tx' = s.event_tx
           /\ chan' = s.chan
    /\ ret' = [call |-> "stop", result |-> "ok"]
    /\ UNCHANGED <<config, fs, stats, pc, cur, ti, watchCalls, sent, emitted,
                   lastResult, probe, watcher_state>>

(***************************************************************************)
(* The debounce callback (service.rs lines 155-214).                       *)
(***************************************************************************)
\* faulty variant: Access falls into the catch-all arm
base_kind_of_access_other(raw_kind) ==
    CASE raw_kind = "Create" -> "Created"
      [] raw_kind = "Modify" -> "Modified"
      [] raw_kind = "Remove" -> "Deleted"
      [] OTHER               -> "Other"

\* lines 180-187: notify::EventKind -> WatchEventKind; Access is skipped
base_kind_of(raw_kind) ==
    CASE raw_kind = "Create" -> "Created"
      [] raw_kind = "Modify" -> "Modified"
      [] raw_kind = "Remove" -> "Deleted"
      [] raw_kind = "Access" -> "skip"
      [] OTHER               -> "Other"

\* faulty variant: a change is dropped as filtered when any of its paths is
\* rejected, not only when all of them are
RECURSIVE handle_events_any_rejected(_, _, _)
handle_events_any_rejected(events, i, acc) ==
    IF i > Len(events) THEN acc
    ELSE
      LET event == events[i]
          counted == [acc EXCEPT !.processed = @ + 1]
          paths == SelectSeq(event.paths,
                             LAMBDA p : should_watch(default_rules, p))
          base_kind == base_kind_of(event.kind)
      IN  IF Len(paths) < Len(event.paths) \/ paths = <<>>
          THEN handle_events_any_rejected(events, i + 1,
                             [counted EXCEPT !.filtered = @ + 1])
          ELSE IF base_kind = "skip"
          THEN handle_events_any_rejected(events, i + 1, counted)
          ELSE
            LET first_path == paths[1]
                watch_event ==
                    WatchEvent_new(classify_by_path(base_kind, first_path),
                                   paths, determine_source(first_path))
            IN  handle_events_any_rejected(events, i + 1,
                    [counted EXCEPT !.watch_events = Append(@, watch_event)])

\* lines 162-198: the loop over the raw changes of one burst, from change i
\* on; acc holds watch_events and the increments of the two counters
RECURSIVE handle_events(_, _, _)
handle_events(events, i, acc) ==
    IF i > Len(events) THEN acc
    ELSE
      LET event == events[i]
          counted == [acc EXCEPT !.processed = @ + 1]
          paths == SelectSeq(event.paths,
                             LAMBDA p : should_watch(default_rules, p))
          base_kind == base_kind_of(event.kind)
      IN  IF paths = <<>>
          THEN handle_events(events, i + 1,
                             [counted EXCEPT !.filtered = @ + 1])
          ELSE IF base_kind = "skip"
          THEN handle_events(events, i + 1, counted)
          ELSE
            LET first_path == paths[1]
                kind == classify_by_path(base_kind, first_path)
                source == determine_source(first_path)
                watch_event ==
                    WatchEvent_new(kind, paths, source)
            IN  handle_events(events, i + 1,
                    [counted EXCEPT !.watch_events = Append(@, watch_event)])

\* lines 160-198 for every burst of the model, evaluated once
callback_table ==
    {<<events, handle_events(events, 1, [watch_events |-> <<>>,
                                         processed |-> 0, filtered |-> 0])>> :
        events \in WideBursts}

\* faulty variant: only the changes that became events count as processed
callback_result_counts_built(events) ==
    LET out == (CHOOSE p \in callback_table : p[1] = events)[2]
    IN  [out EXCEPT !.processed = Len(out.watch_events)]

\* lines 160-198 for one burst
callback_result(events) ==
    (CHOOSE p \in callback_table : p[1] = events)[2]

\* history: number the events of batch batchNo by their position in it
numbered(events, batchNo) ==
    [k \in 1..Len(events) |-> [events[k] EXCEPT !.id = <<batchNo, k>>]]

\* the callback's closure of channel c can be invoked
CallbackEnabled(c) ==
    /\ chan[c].cb
    /\ chan[c].deb = "live"
    /\ chan[c].watches # {}
    /\ stats.raw_events < MaxCallbacks
    /\ Ops < MaxOps

\* faulty variant: a channel of capacity 1, whose send waits for room
tx_send_ready_bounded(queue) == Len(queue) < 1

\* lines 107, 202: the channel is unbounded, tx.send never waits for room
tx_send_ready(queue) == TRUE

\* faulty variant: the batch is sent even when no event was built
CallbackOkOn_SendsEmpty(c, bursts) ==
    /\ CallbackEnabled(c)
    /\ tx_send_ready(chan[c].queue)
    /\ \E events \in bursts :
         LET batchNo == Len(sent) + 1
             out == callback_result(events)
             batch == WatchEventBatch_new(numbered(out.watch_events, batchNo))
         IN  /\ stats' = [stats EXCEPT
                            !.raw_events = @ + 1,
                            !.processed_events = @ + out.processed,
                            !.filtered_events = @ + out.filtered]
             /\ IF chan[c].task # "done"
                THEN /\ chan' = [chan EXCEPT ![c].queue = Append(@, batch)]
                     /\ sent' = Append(sent, [ch |-> c, batch |-> batch])
                ELSE UNCHANGED <<chan, sent>>
             /\ lastResult' = [ok |-> TRUE, events |-> events, errors |-> 0]
    /\ UNCHANGED <<config, fs, running, event_tx, debouncer, pc, cur, ti,
                   watchCalls, ret, emitted, probe, watcher_state>>

\* lines 156-206: Ok(events), the events drawn from `bursts`
CallbackOkOn(c, bursts) ==
    /\ CallbackEnabled(c)
    /\ tx_send_ready(chan[c].queue)
    /\ \E events \in bursts :
         LET batchNo == Len(sent) + 1
             out == callback_result(events)
             batch == WatchEventBatch_new(numbered(out.watch_events, batchNo))
         IN  /\ stats' = [stats EXCEPT
                            !.raw_events = @ + 1,
                            !.processed_events = @ + out.processed,
                            !.filtered_events = @ + out.filtered]
             /\ IF out.watch_events # <<>> /\ chan[c].task # "done"
                THEN /\ chan' = [chan EXCEPT ![c].queue = Append(@, batch)]
                     /\ sent' = Append(sent, [ch |-> c, batch |-> batch])
                ELSE UNCHANGED <<chan, sent>>
             /\ lastResult' = [ok |-> TRUE, events |-> events, errors |-> 0]
    /\ UNCHANGED <<config, fs, running, event_tx, debouncer, pc, cur, ti,
                   watchCalls, ret, emitted, probe, watcher_state>>

\* lines 156-206: Ok(events)
CallbackOk(c) == CallbackOkOn(c, Bursts)

\* faulty variant: an invocation with errors counts as one error
CallbackErr_CountsOnce(c) ==
    /\ CallbackEnabled(c)
    /\ \E n \in 1..MaxBurst :
         /\ stats' = [stats EXCEPT !.raw_events = @ + 1, !.errors = @ + 1]
         /\ lastResult' = [ok |-> FALSE, events |-> <<>>, errors |-> n]
    /\ UNCHANGED <<config, fs, running, event_tx, debouncer, chan, pc, cur,
                   ti, watchCalls, ret, sent, emitted, probe, watcher_state>>

\* lines 156, 207-212: Err(errors)
CallbackErr(c) ==
    /\ CallbackEnabled(c)
    /\ \E n \in 1..MaxBurst :
         /\ stats' = [stats EXCEPT !.raw_events = @ + 1, !.errors = @ + n]
         /\ lastResult' = [ok |-> FALSE, events |-> <<>>, errors |-> n]
    /\ UNCHANGED <<config, fs, running, event_tx, debouncer, chan, pc, cur,
                   ti, watchCalls, ret, sent, emitted, probe, watcher_state>>

\* the thread of a dropped debouncer ends and drops the closure, and tx
CallbackDropped(c) ==
    /\ chan[c].cb
    /\ chan[c].deb = "dropped"
    /\ chan' = [chan EXCEPT ![c].cb = FALSE]
    /\ UNCHANGED <<config, fs, running, event_tx, debouncer, stats, pc, cur,
                   ti, watchCalls, ret, sent, emitted, lastResult, probe,
                   watcher_state>>

(***************************************************************************)
(* The dispatch task (service.rs lines 116-144).                           *)
(***************************************************************************)
\* faulty variant: the newest batch is taken first
rx_recv_newest(queue) ==
    <<queue[Len(queue)], SubSeq(queue, 1, Len(queue) - 1)>>

\* UnboundedReceiver::recv on a non-empty queue: <<batch, rest of the queue>>
rx_recv(queue) == <<Head(queue), Tail(queue)>>

\* line 117-120: a batch arrives and is split
TaskRecv(c) ==
    /\ chan[c].task = "recv"
    /\ chan[c].queue # <<>>
    /\ LET got == rx_recv(chan[c].queue)
           batch == got[1]
           split == split_by_priority(batch)
       IN  chan' = [chan EXCEPT
                      ![c].queue = got[2],
                      ![c].task = IF batch_is_empty(batch) THEN "recv"
                                  ELSE "emit",
                      ![c].high = IF batch_is_empty(batch) THEN <<>>
                                  ELSE split[1],
                      ![c].normal = IF batch_is_empty(batch) THEN <<>>
                                    ELSE split[2]]
    /\ UNCHANGED <<config, fs, running, event_tx, debouncer, stats, pc, cur,
                   ti, watchCalls, ret, sent, emitted, lastResult, probe,
                   watcher_state>>

\* faulty variant: after one normal-priority event the rest of the batch is dropped
next_event_drops_rest(high, normal) ==
    IF high # <<>>
    THEN [event |-> Head(high), high |-> Tail(high), normal |-> normal]
    ELSE [event |-> Head(normal), high |-> high, normal |-> <<>>]

\* the event the loops at lines 123-139 emit next, and what is left of them
next_event(high, normal) ==
    IF high # <<>>
    THEN [event |-> Head(high), high |-> Tail(high), normal |-> normal]
    ELSE [event |-> Head(normal), high |-> high, normal |-> Tail(normal)]

EmitFailures == Cardinality({i \in DOMAIN emitted : ~emitted[i].ok})

\* lines 123-139: one emit_all call and the fetch_add after it
TaskEmit(c) ==
    /\ chan[c].task = "emit"
    /\ LET nxt == next_event(chan[c].high, chan[c].normal)
       IN  /\ \E ok \in BOOLEAN :
                /\ ok \/ EmitFailures < MaxEmitFailures
                /\ emitted' = Append(emitted,
                                     [payload |-> to_payload(nxt.event),
                                      ch |-> c, ok |-> ok])
           /\ stats' = IF Mine(c)
                       THEN [stats EXCEPT !.events_emitted = @ + 1]
                       ELSE stats
           /\ chan' = [chan EXCEPT
                         ![c].high = nxt.high,
                         ![c].normal = nxt.normal,
                         ![c].task = IF nxt.high = <<>> /\ nxt.normal = <<>>
                                     THEN "recv" ELSE "emit"]
    /\ UNCHANGED <<config, fs, running, event_tx, debouncer, pc, cur, ti,
                   watchCalls, ret, sent, lastResult, probe, watcher_state>>

\* faulty variant: the task ends once stop() has cleared the running flag,
\* leaving what is still queued
TaskExit_WhenStopped(c) ==
    /\ chan[c].task = "recv"
    /\ ~running
    /\ running' = (running /\ ~Mine(c))
    /\ chan' = [chan EXCEPT ![c].task = "done"]
    /\ UNCHANGED <<config, fs, event_tx, debouncer, stats, pc, cur, ti,
                   watchCalls, ret, sent, emitted, lastResult, probe,
                   watcher_state>>

\* faulty variant: the task ends as soon as every sender is gone, leaving
\* what is still queued
TaskExit_NoDrain(c) ==
    /\ chan[c].task = "recv"
    /\ SenderCount(c) = 0
    /\ running' = (running /\ ~Mine(c))
    /\ chan' = [chan EXCEPT ![c].task = "done"]
    /\ UNCHANGED <<config, fs, event_tx, debouncer, stats, pc, cur, ti,
                   watchCalls, ret, sent, emitted, lastResult, probe,
                   watcher_state>>

\* lines 117, 143: recv() returns None once the queue is empty and every
\* sender is gone; the task stores false and ends
TaskExit(c) ==
    /\ chan[c].task = "recv"
    /\ chan[c].queue = <<>>
    /\ SenderCount(c) = 0
    /\ running' = (running /\ ~Mine(c))
    /\ chan' = [chan EXCEPT ![c].task = "done"]
    /\ UNCHANGED <<config, fs, event_tx, debouncer, stats, pc, cur, ti,
                   watchCalls, ret, sent, emitted, lastResult, probe,
                   watcher_state>>

(***************************************************************************)
(* Specification.                                                          *)
(***************************************************************************)
Next ==
    \/ StartEnter
    \/ StartNewDebouncer
    \/ StartNewDebouncerFails
    \/ StartWatchTarget
    \/ StartFinish
    \/ Stop
    \/ \E c \in Channels : CallbackOk(c)
    \/ \E c \in Channels : CallbackErr(c)
    \/ \E c \in Channels : CallbackDropped(c)
    \/ \E c \in Channels : TaskRecv(c)
    \/ \E c \in Channels : TaskEmit(c)
    \/ \E c \in Channels : TaskExit(c)

Spec == Init /\ [][Next]_vars

\* line 116: each dispatch task is a tokio task of its own; the runtime
\* polls a task that can make progress, and emit_all returns: a task that
\* can take a batch takes one, and a task that has an event to emit emits it
Fairness ==
    \A c \in Channels :
        /\ WF_vars(TaskRecv(c))
        /\ WF_vars(TaskEmit(c))

SpecLive == Init /\ [][Next]_vars /\ Fairness

(***************************************************************************)
(* The callback and the dispatch task of an instance that is watching one  *)
(* target, fed with changes of every shape.                                *)
(***************************************************************************)
\* the instance after start() has succeeded on one existing target
InitWatching ==
    /\ config = [targets |-> <<[recursive |-> TRUE]>>, debounce_ms |-> 100]
    /\ fs = <<"ok">>
    /\ running = TRUE
    /\ event_tx = 1
    /\ debouncer = 1
    /\ chan = [c \in Channels |->
                 IF c = 1
                 THEN [NoChannel EXCEPT
                         !.task = "recv", !.cb = TRUE, !.deb = "live",
                         !.watches = {[target |-> 1, mode |-> "Recursive"]}]
                 ELSE NoChannel]
    /\ stats = [raw_events |-> 0, processed_events |-> 0,
                filtered_events |-> 0, events_emitted |-> 0, errors |-> 0]
    /\ pc = "idle"
    /\ cur = 1
    /\ ti = 2
    /\ watchCalls = <<[target |-> 1, mode |-> "Recursive"]>>
    /\ ret = [call |-> "start", result |-> "ok"]
    /\ sent = <<>>
    /\ emitted = <<>>
    /\ lastResult = NoResult
    /\ probe = NoProbe
    /\ watcher_state = NoWatcher

\* lines 156-206: Ok(events) over the changes of more shapes
CallbackOkWide(c) == CallbackOkOn(c, WideBursts)

NextCallback ==
    \/ \E c \in Channels : CallbackOkWide(c)
    \/ \E c \in Channels : CallbackErr(c)
    \/ \E c \in Channels : TaskRecv(c)
    \/ \E c \in Channels : TaskEmit(c)

SpecCallback == InitWatching /\ [][NextCallback]_vars

(***************************************************************************)
(* The statistics calls next to everything else.                           *)
(***************************************************************************)
\* lines 329-337: WatcherStats::snapshot
snapshot(st) ==
    [raw_events |-> st.raw_events,
     processed_events |-> st.processed_events,
     filtered_events |-> st.filtered_events,
     events_emitted |-> st.events_emitted,
     errors |-> st.errors]

\* lines 271-273: get_stats()
GetStats ==
    /\ pc = "idle"
    /\ ret' = [call |-> "get_stats", result |-> "ok",
               snapshot |-> snapshot(stats)]
    /\ UNCHANGED <<config, fs, running, event_tx, debouncer, chan, stats, pc,
                   cur, ti, watchCalls, sent, emitted, lastResult, probe,
                   watcher_state>>

\* lines 276-282: emit_stats(), the emit_all succeeding or not
EmitStats ==
    /\ pc = "idle"
    /\ \E ok \in BOOLEAN :
         ret' = [call |-> "emit_stats",
                 result |-> IF ok THEN "ok" ELSE "emit_failed",
                 snapshot |-> snapshot(stats)]
    /\ UNCHANGED <<config, fs, running, event_tx, debouncer, chan, stats, pc,
                   cur, ti, watchCalls, sent, emitted, lastResult, probe,
                   watcher_state>>

NextStats ==
    \/ Next
    \/ GetStats
    \/ EmitStats

SpecStats == Init /\ [][NextStats]_vars

(***************************************************************************)
(* The command layer (commands.rs): every command locks the WatcherState,  *)
(* a start command constructs a new WatcherService and starts it.          *)
(***************************************************************************)
\* service.rs lines 62-87: the counters of a constructed instance
WatcherStats_default ==
    [raw_events |-> 0, processed_events |-> 0, filtered_events |-> 0,
     events_emitted |-> 0, errors |-> 0]

\* service.rs lines 302-306: Drop for WatcherService calls stop(); the
\* fields, event_tx and debouncer among them, are dropped after it
drop_service(s) ==
    LET stopped == stop(s)
    IN  [running |-> stopped.running, debouncer |-> 0, event_tx |-> 0,
         chan |-> drop_debouncer(stopped.chan, stopped.debouncer)]

\* commands.rs lines 31, 61-62: the configuration of the new service; every
\* start command of a run is given the configuration the run began with
CommandConfigs == {config}

\* faulty variant: a start command replaces the service that is held
CmdStartWatcher_Replaces ==
    /\ pc = "idle"
    /\ ~watcher_state.locked
    /\ \E cfg \in CommandConfigs, c \in Channels :
       \E f \in [1..Len(cfg.targets) -> FsStates] :
         /\ validate(cfg) = "ok"
         /\ c = Cardinality(Created) + 1
         /\ Ops < MaxOps
         /\ config' = cfg
         /\ fs' = f
         /\ running' = FALSE
         /\ debouncer' = 0
         /\ stats' = WatcherStats_default
         /\ event_tx' = c
         /\ chan' = [chan EXCEPT ![c].task = "recv"]
         /\ pc' = "new_debouncer"
         /\ cur' = c
         /\ ti' = 0
         /\ watchCalls' = <<>>
         /\ ret' = [call |-> "start", result |-> "pending"]
         /\ watcher_state' = [held |-> FALSE, locked |-> TRUE, first |-> c]
    /\ UNCHANGED <<sent, emitted, lastResult, probe>>

\* commands.rs lines 19-43, 45-71: start_watcher and
\* start_watcher_with_config, from the lock to the spawn of the dispatch
\* task inside service.start() (service.rs lines 96-144)
CmdStartWatcher ==
    /\ pc = "idle"
    /\ ~watcher_state.locked
    /\ IF watcher_state.held
       THEN /\ ret' = [call |-> "start_watcher", result |-> "already_running"]
            /\ UNCHANGED <<config, fs, running, event_tx, debouncer, chan,
                           stats, pc, cur, ti, watchCalls, watcher_state>>
       ELSE \E cfg \in CommandConfigs :
            LET check == start_precheck(FALSE, cfg)
                fresh == Cardinality(Created) + 1
            IN  /\ config' = cfg
                /\ running' = FALSE
                /\ debouncer' = 0
                /\ stats' = WatcherStats_default
                /\ IF check # "ok"
                   THEN /\ fs' = [t \in 1..Len(cfg.targets) |-> "missing"]
                        /\ event_tx' = 0
                        /\ ret' = [call |-> "start_watcher", result |-> check]
                        /\ watcher_state' =
                               [watcher_state EXCEPT !.first = fresh]
                        /\ UNCHANGED <<chan, pc, cur, ti, watchCalls>>
                   ELSE \E f \in [1..Len(cfg.targets) -> FsStates] :
                        /\ fresh \in Channels
                        /\ Ops < MaxOps
                        /\ fs' = f
                        /\ event_tx' = fresh
                        /\ chan' = [chan EXCEPT ![fresh].task = "recv"]
                        /\ pc' = "new_debouncer"
                        /\ cur' = fresh
                        /\ ti' = 0
                        /\ watchCalls' = <<>>
                        /\ ret' = [call |-> "start", result |-> "pending"]
                        /\ watcher_state' = [held |-> FALSE, locked |-> TRUE,
                                             first |-> fresh]
    /\ UNCHANGED <<sent, emitted, lastResult, probe>>

\* commands.rs lines 36-42, 64-70: service.start() has returned; on Ok the
\* service is stored, on Err it is dropped with the command's return
CmdStartReturn ==
    /\ pc = "idle"
    /\ watcher_state.locked
    /\ IF ret.result = "ok"
       THEN /\ watcher_state' = [watcher_state EXCEPT !.held = TRUE,
                                                      !.locked = FALSE]
            /\ UNCHANGED <<running, event_tx, debouncer, chan>>
       ELSE LET s == drop_service(StopFields)
            IN  /\ running' = s.running
                /\ debouncer' = s.debouncer
                /\ event_tx' = s.event_tx
                /\ chan' = s.chan
                /\ watcher_state' = [watcher_state EXCEPT !.locked = FALSE]
    /\ ret' = [call |-> "start_watcher", result |-> ret.result]
    /\ UNCHANGED <<config, fs, stats, pc, cur, ti, watchCalls, sent, emitted,
                   lastResult, probe>>

\* faulty variant: a stop command takes the service out of the state and
\* leaves it running
CmdStopWatcher_TakesOnly ==
    /\ pc = "idle"
    /\ ~watcher_state.locked
    /\ IF watcher_state.held
       THEN /\ watcher_state' = [watcher_state EXCEPT !.held = FALSE]
            /\ ret' = [call |-> "stop_watcher", result |-> "ok"]
       ELSE /\ ret' = [call |-> "stop_watcher", result |-> "not_running"]
            /\ UNCHANGED watcher_state
    /\ UNCHANGED <<config, fs, running, event_tx, debouncer, chan, stats, pc,
                   cur, ti, watchCalls, sent, emitted, lastResult, probe>>

\* faulty variant: a stop command on an empty state reports success
CmdStopWatcher_NoneIsOk ==
    /\ pc = "idle"
    /\ ~watcher_state.locked
    /\ LET s == IF watcher_state.held THEN drop_service(StopFields)
                ELSE StopFields
       IN  /\ running' = s.running
           /\ debouncer' = s.debouncer
           /\ event_tx' = s.event_tx
           /\ chan' = s.chan
    /\ watcher_state' = [watcher_state EXCEPT !.held = FALSE]
    /\ ret' = [call |-> "stop_watcher", result |-> "ok"]
    /\ UNCHANGED <<config, fs, stats, pc, cur, ti, watchCalls, sent, emitted,
                   lastResult, probe>>

\* commands.rs lines 73-86: stop_watcher takes the service out of the state,
\* stops it and drops it
CmdStopWatcher ==
    /\ pc = "idle"
    /\ ~watcher_state.locked
    /\ IF watcher_state.held
       THEN LET s == drop_service(StopFields)
            IN  /\ running' = s.running
                /\ debouncer' = s.debouncer
                /\ event_tx' = s.event_tx
                /\ chan' = s.chan
                /\ watcher_state' = [watcher_state EXCEPT !.held = FALSE]
                /\ ret' = [call |-> "stop_watcher", result |-> "ok"]
       ELSE /\ ret' = [call |-> "stop_watcher", result |-> "not_running"]
            /\ UNCHANGED <<running, event_tx, debouncer, chan, watcher_state>>
    /\ UNCHANGED <<config, fs, stats, pc, cur, ti, watchCalls, sent, emitted,
                   lastResult, probe>>

\* commands.rs lines 89-93: is_watcher_running
CmdIsWatcherRunning ==
    /\ pc = "idle"
    /\ ~watcher_state.locked
    /\ ret' = [call |-> "is_watcher_running", result |-> "ok",
               value |-> (watcher_state.held /\ running)]
    /\ UNCHANGED <<config, fs, running, event_tx, debouncer, chan, stats, pc,
                   cur, ti, watchCalls, sent, emitted, lastResult, probe,
                   watcher_state>>

\* commands.rs lines 96-106: get_watcher_stats
CmdGetWatcherStats ==
    /\ pc = "idle"
    /\ ~watcher_state.locked
    /\ ret' = IF watcher_state.held
              THEN [call |-> "get_watcher_stats", result |-> "ok",
                    snapshot |-> snapshot(stats)]
              ELSE [call |-> "get_watcher_stats", result |-> "not_running"]
    /\ UNCHANGED <<config, fs, running, event_tx, debouncer, chan, stats, pc,
                   cur, ti, watchCalls, sent, emitted, lastResult, probe,
                   watcher_state>>

\* commands.rs lines 109-121: emit_watcher_stats, the emit_all succeeding or
\* not
CmdEmitWatcherStats ==
    /\ pc = "idle"
    /\ ~watcher_state.locked
    /\ IF watcher_state.held
       THEN \E ok \in BOOLEAN :
              ret' = [call |-> "emit_watcher_stats",
                      result |-> IF ok THEN "ok" ELSE "emit_failed"]
       ELSE ret' = [call |-> "emit_watcher_stats", result |-> "not_running"]
    /\ UNCHANGED <<config, fs, running, event_tx, debouncer, chan, stats, pc,
                   cur, ti, watchCalls, sent, emitted, lastResult, probe,
                   watcher_state>>

\* commands.rs lines 189-193: the Testing preset, src_dir() and
\* WatchTarget::new("tests", ..), both recursive (config.rs lines 91-98,
\* 120-124), debounce 100 ms
WatcherPreset_Testing ==
    [targets |-> <<[recursive |-> TRUE], [recursive |-> TRUE]>>,
     debounce_ms |-> 100]

\* no service is held; the configuration the start commands will pass is one
\* of Configs or the Testing preset
InitCommands ==
    /\ config \in Configs \cup {WatcherPreset_Testing}
    /\ fs = [t \in 1..Len(config.targets) |-> "missing"]
    /\ running = FALSE
    /\ event_tx = 0
    /\ debouncer = 0
    /\ chan = [c \in Channels |-> NoChannel]
    /\ stats = WatcherStats_default
    /\ pc = "idle"
    /\ cur = 0
    /\ ti = 0
    /\ watchCalls = <<>>
    /\ ret = [call |-> "new", result |-> "ok"]
    /\ sent = <<>>
    /\ emitted = <<>>
    /\ lastResult = NoResult
    /\ probe = NoProbe
    /\ watcher_state = NoWatcher

\* service.rs lines 156-206: Ok(events), the bursts of one change each
CallbackOkOne(c) == CallbackOkOn(c, {events \in Bursts : Len(events) = 1})

NextCommands ==
    \/ CmdStartWatcher
    \/ StartNewDebouncer
    \/ StartNewDebouncerFails
    \/ StartWatchTarget
    \/ StartFinish
    \/ CmdStartReturn
    \/ CmdStopWatcher
    \/ CmdIsWatcherRunning
    \/ CmdGetWatcherStats
    \/ CmdEmitWatcherStats
    \/ \E c \in Channels : CallbackOkOne(c)
    \/ \E c \in Channels : CallbackErr(c)
    \/ \E c \in Channels : CallbackDropped(c)
    \/ \E c \in Channels : TaskRecv(c)
    \/ \E c \in Channels : TaskEmit(c)
    \/ \E c \in Channels : TaskExit(c)

SpecCommands == InitCommands /\ [][NextCommands]_vars

(***************************************************************************)
(* The functions of events.rs, config.rs and filter.rs applied one at a    *)
(* time to arguments of every shape, on an instance that is not started.   *)
(***************************************************************************)
\* batches of up to MaxBatch events of any kinds, the events numbered by
\* their position
ProbeBatches ==
    {WatchEventBatch_new(numbered(
         [k \in DOMAIN kinds |->
             WatchEvent_new(kinds[k], <<PathSrcMain>>, "test")], 1)) :
       kinds \in UNION {[1..n -> WatchEventKind] : n \in 0..MaxBatch}}

PathGitRefJson == <<"/", "p", "/", ".", "g", "i", "t", "/", "r", "e", "f", "s", "/", "h", "e", "a", "d", "s", "/", "v", "1", ".", "j", "s", "o", "n">>
PathGitHead == <<"/", "p", "/", ".", "g", "i", "t", "/", "H", "E", "A", "D">>
PathEnv == <<"/", "p", "/", ".", "e", "n", "v">>

\* paths handed to classify_by_path: under /.claude/ or not, a git ref or
\* not, with a configuration extension, a source extension or neither
ClassifyPaths ==
    {PathClaudeState, PathGitRef, PathGitRefJson, PathGitHead, PathCargoToml,
     PathEnv, PathSrcMain, PathNodeModules, PathReadme,
     <<"/", "p", "/", ".", "c", "l", "a", "u", "d", "e", "/", "a", ".", "r", "s">>,
     <<"/", "p", "/", ".", "c", "l", "a", "u", "d", "e", "/", ".", "g", "i", "t", "/", "r", "e", "f", "s", "/", "h", "e", "a", "d", "s", "/", "m", "a", "i", "n">>,
     <<"/", "p", "/", ".", "c", "l", "a", "u", "d", "e">>,
     <<"/", "p", "/", ".", "g", "i", "t", "/", "r", "e", "f", "s", "/", "h", "e", "a", "d", "s", "/", "a", ".", "r", "s">>,
     <<"/", "p", "/", "c", "i", ".", "y", "m", "l">>,
     <<"/", "p", "/", "c", "i", ".", "y", "a", "m", "l">>,
     <<"/", "p", "/", "s", "r", "c", "/", "A", "p", "p", ".", "t", "s", "x">>,
     <<"/", "p", "/", "s", "r", "c", "/", "A", "p", "p", ".", "j", "s", "x">>,
     <<"/", "p", "/", "a", ".", "r", "s", ".", "j", "s", "o", "n">>,
     <<"/", "p", "/", ".", "g", "i", "t", "/", "H", "E", "A", "D", ".", "l", "o", "c", "k">>,
     <<"/", "p", "/", ".", "g", "i", "t", "/", "H", "E", "A", "D", "S", "/", "a", ".", "r", "s">>,
     <<"/", "p", "/", ".", "g", "i", "t", "/", "O", "R", "I", "G", "_", "H", "E", "A", "D">>,
     <<"/", "p", "/", "M", "a", "k", "e", "f", "i", "l", "e">>}

\* configurations handed to validate(): no target or some, debounce_ms at
\* and around the two limits
ValidateConfigs ==
    [targets : Targets,
     debounce_ms : {0, 1, 2, 100, 9999, 10000, 10001, 15000}]

\* directories and dot-file names from which the paths handed to
\* should_watch are put together
ProbeDirs ==
    {<<"/", "p", "/">>, <<"/", "p", "/", "s", "r", "c", "/">>, <<"/", "p", "/", ".", "c", "l", "a", "u", "d", "e", "/">>, <<"/", "p", "/", ".", "g", "i", "t", "h", "u", "b", "/">>, <<"/", "p", "/", ".", "x", "/">>}

DotFileNames ==
    {<<".", "h", "i", "d", "d", "e", "n">>, <<".", "n", "p", "m", "r", "c">>, <<".", "D", "S", "_", "S", "t", "o", "r", "e">>, <<".", "a", ".", "s", "w", "p">>,
     <<".", "e", "n", "v">>, <<".", "e", "n", "v", ".", "l", "o", "c", "a", "l">>, <<".", "e", "n", "v", ".", "t", "m", "p">>, <<".", "g", "i", "t", "i", "g", "n", "o", "r", "e">>, <<".", "g", "i", "t">>,
     <<".", "g", "i", "t", "h", "u", "b">>, <<".", "c", "l", "a", "u", "d", "e">>, <<".", "c", "l", "a", "u", "d", "e", ".", "l", "o", "g">>}

DotFilePaths == {dir \o name : dir \in ProbeDirs, name \in DotFileNames}

\* directories and file names of noise and of wanted files, from which more
\* paths handed to should_watch are put together
FilterDirs ==
    {<<"/", "p", "/">>, <<"/", "p", "/", "s", "r", "c", "/">>, <<"/", "p", "/", "n", "o", "d", "e", "_", "m", "o", "d", "u", "l", "e", "s", "/">>, <<"/", "p", "/", "o", "l", "d", "_", "n", "o", "d", "e", "_", "m", "o", "d", "u", "l", "e", "s", "/">>,
     <<"/", "p", "/", "t", "a", "r", "g", "e", "t", "/", "d", "e", "b", "u", "g", "/">>, <<"/", "p", "/", "d", "i", "s", "t", "/">>, <<"/", "p", "/", ".", "i", "d", "e", "a", "/">>, <<"/", "p", "/", "a", ".", "t", "m", "p", "/">>,
     <<"/", "p", "/", ".", "g", "i", "t", "/", "o", "b", "j", "e", "c", "t", "s", "/">>, <<"/", "p", "/", ".", "g", "i", "t", "/", "r", "e", "f", "s", "/", "h", "e", "a", "d", "s", "/">>, <<"/", "p", "/", ".", "c", "l", "a", "u", "d", "e", "/">>,
     <<"/", "p", "/", ".", "c", "l", "a", "u", "d", "e", "/", "n", "o", "d", "e", "_", "m", "o", "d", "u", "l", "e", "s", "/">>}

FilterNames ==
    {<<"a", ".", "r", "s">>, <<"m", "a", "i", "n">>, <<"R", "E", "A", "D", "M", "E", ".", "m", "d">>, <<"p", "a", "c", "k", "a", "g", "e", ".", "j", "s", "o", "n">>, <<"C", "a", "r", "g", "o", ".", "l", "o", "c", "k">>,
     <<"a", ".", "t", "m", "p">>, <<"a", ".", "t", "m", "p", ".", "t", "x", "t">>, <<"d", "e", "b", "u", "g", ".", "l", "o", "g">>, <<".", "D", "S", "_", "S", "t", "o", "r", "e">>,
     <<"x", ".", "D", "S", "_", "S", "t", "o", "r", "e", ".", "b", "a", "k">>}

FilterPaths ==
    {dir \o name : dir \in FilterDirs, name \in FilterNames}
    \cup {PathGitHead, <<"/", ".", "g", "i", "t", "/", "H", "E", "A", "D">>, <<"/", "p", "/", "n", "o", "d", "e", "_", "m", "o", "d", "u", "l", "e", "s">>}

\* f64 values of the statistics, kept as exact fractions num/den in lowest
\* terms; den = 0 stands for the non-finite results of a division by zero
\* (0/0 is NaN, n/0 is infinite).  Rounding to 53 bits is not modelled
RECURSIVE gcd(_, _)
gcd(a, b) == IF b = 0 THEN a ELSE gcd(b, a % b)

f64_ratio(num, den) ==
    IF den = 0 THEN [num |-> IF num = 0 THEN 0 ELSE 1, den |-> 0]
    ELSE [num |-> num \div gcd(num, den), den |-> den \div gcd(num, den)]

\* `a as f64 / b as f64`
f64_div(a, b) == f64_ratio(a, b)

\* `x * k` for a whole k
f64_mul(x, k) == IF x.den = 0 THEN x ELSE f64_ratio(x.num * k, x.den)

\* faulty variant: the division is made whatever raw_events is
filter_efficiency_unguarded(s) ==
    f64_mul(f64_div(s.filtered_events, s.raw_events), 100)

\* service.rs lines 361-367: WatcherStatsSnapshot::filter_efficiency
filter_efficiency(s) ==
    IF s.raw_events = 0 THEN f64_ratio(0, 1)
    ELSE f64_mul(f64_div(s.filtered_events, s.raw_events), 100)

\* service.rs lines 370-376: WatcherStatsSnapshot::throughput
throughput(s) ==
    IF s.processed_events = 0 THEN f64_ratio(0, 1)
    ELSE f64_mul(f64_div(s.events_emitted, s.processed_events), 100)

\* snapshots handed to filter_efficiency and throughput: zero and non-zero
\* denominators, the values of test_stats_calculation among them
StatsSnapshots ==
    [raw_events : {0, 1, 3, 100, 1000}, processed_events : {0, 3, 400},
     filtered_events : {0, 1, 2, 60, 600}, events_emitted : {0, 2, 350},
     errors : {0, 5}]

\* rules of every match type, with and without exceptions, built with the
\* constructors of FilterRule; a Regex rule has no constructor and is the
\* struct itself
RegexRule ==
    [kind |-> "Custom", pattern |-> <<".", "*">>, match_type |-> "Regex",
     exceptions |-> <<>>]

ListRules ==
    {rule_exceptions(rule_contains(<<"/", "d", "i", "s", "t", "/">>, "BuildArtifact"),
                     <<<<"k", "e", "e", "p">>>>),
     rule_exceptions(rule_extension(<<"t", "m", "p">>, "TemporaryFile"),
                     <<<<".", "c", "l", "a", "u", "d", "e">>>>),
     rule_exceptions(rule_starts_with(<<".">>, "Hidden"),
                     <<<<".", "g", "i", "t">>, <<".", "e", "n", "v">>>>),
     rule_ends_with(<<"C", "a", "r", "g", "o", ".", "l", "o", "c", "k">>, "LockFile"),
     RegexRule}

ProbeRules ==
    ListRules
    \cup {rule_contains(<<"/", "d", "i", "s", "t", "/">>, "BuildArtifact"),
          rule_extension(<<".", "t", "m", "p">>, "TemporaryFile"),
          rule_starts_with(<<".">>, "Hidden"),
          rule_exceptions(RegexRule, <<<<"k", "e", "e", "p">>>>)}

\* paths handed to FilterRule::matches: the pattern at the start, inside and
\* at the end of the path, in the file name and in a parent directory, with
\* and without an exception
MatchPaths ==
    {<<"/", "p", "/", "d", "i", "s", "t", "/", "a", ".", "j", "s">>, <<"/", "p", "/", "d", "i", "s", "t", "/", "k", "e", "e", "p", "/", "a", ".", "j", "s">>, <<"/", "p", "/", "d", "i", "s", "t", "/", "k", "e", "e", "p", "/", "a", ".", "t", "m", "p">>,
     <<"/", "p", "/", "k", "e", "e", "p", "/", "d", "i", "s", "t">>, <<"/", "d", "i", "s", "t", "/", "a", ".", "t", "m", "p">>, <<"/", "p", "/", "a", ".", "t", "m", "p">>, <<"/", "p", "/", ".", "c", "l", "a", "u", "d", "e", "/", "a", ".", "t", "m", "p">>,
     <<"/", "p", "/", "a", ".", "t", "m", "p", "/", "b", ".", "r", "s">>, <<"/", "p", "/", ".", "h", "i", "d", "d", "e", "n">>, <<"/", "p", "/", ".", "h", "i", "d", "/", "a", ".", "r", "s">>, <<"/", "p", "/", ".", "h", "i", "d", "/">>,
     <<"/", "p", "/", ".", "e", "n", "v">>, <<"/", "p", "/", ".", "g", "i", "t", "/", ".", "x">>, <<"/", "p", "/", "C", "a", "r", "g", "o", ".", "l", "o", "c", "k">>,
     <<"/", "p", "/", "C", "a", "r", "g", "o", ".", "l", "o", "c", "k", ".", "b", "a", "k">>, <<"/", "p", "/", "d", "i", "s", "t", "/", "C", "a", "r", "g", "o", ".", "l", "o", "c", "k">>, <<".", "x">>, <<"a", ".", "r", "s">>,
     <<"/", "p", "/", "s", "r", "c", "/", "a", ".", "r", "s">>}

\* the rule lists handed to EventFilter::with_rules: up to MaxRules of
\* ListRules in every order
RuleLists ==
    {rules \in UNION {[1..n -> ListRules] : n \in 0..MaxRules} :
        \A i, j \in DOMAIN rules : i # j => rules[i] # rules[j]}

\* the calls examined: the function and its argument
Probes ==
    [fn : {"split_by_priority"}, arg : ProbeBatches, done : {FALSE}]
    \cup [fn : {"classify_by_path"}, arg : WatchEventKind \X ClassifyPaths,
          done : {FALSE}]
    \cup [fn : {"validate"}, arg : ValidateConfigs, done : {FALSE}]
    \cup [fn : {"should_watch"}, arg : DotFilePaths \cup FilterPaths,
          done : {FALSE}]
    \cup [fn : {"filter_efficiency", "throughput"}, arg : StatsSnapshots,
          done : {FALSE}]
    \cup [fn : {"matches"}, arg : ProbeRules \X MatchPaths, done : {FALSE}]
    \cup [fn : {"with_rules"}, arg : RuleLists \X MatchPaths,
          done : {FALSE}]

\* an instance as constructed, and a call to be made
InitProbe ==
    /\ config = [targets |-> <<[recursive |-> TRUE]>>, debounce_ms |-> 100]
    /\ fs = <<"missing">>
    /\ running = FALSE
    /\ event_tx = 0
    /\ debouncer = 0
    /\ chan = [c \in Channels |-> NoChannel]
    /\ stats = [raw_events |-> 0, processed_events |-> 0,
                filtered_events |-> 0, events_emitted |-> 0, errors |-> 0]
    /\ pc = "idle"
    /\ cur = 0
    /\ ti = 0
    /\ watchCalls = <<>>
    /\ ret = [call |-> "new", result |-> "ok"]
    /\ sent = <<>>
    /\ emitted = <<>>
    /\ lastResult = NoResult
    /\ probe \in Probes
    /\ watcher_state = NoWatcher

\* the call is made and its result kept
Returned(out) ==
    /\ probe' = [fn |-> probe.fn, arg |-> probe.arg, done |-> TRUE,
                 out |-> out]
    /\ UNCHANGED <<config, fs, running, event_tx, debouncer, chan, stats, pc,
                   cur, ti, watchCalls, ret, sent, emitted, lastResult,
                   watcher_state>>

\* events.rs lines 193-197
ApplySplitByPriority ==
    /\ probe.fn = "split_by_priority"
    /\ ~probe.done
    /\ Returned(split_by_priority(probe.arg))

\* events.rs lines 118-152
ApplyClassifyByPath ==
    /\ probe.fn = "classify_by_path"
    /\ ~probe.done
    /\ Returned(classify_by_path(probe.arg[1], probe.arg[2]))

\* config.rs lines 56-70
ApplyValidate ==
    /\ probe.fn = "validate"
    /\ ~probe.done
    /\ Returned(validate(probe.arg))

\* filter.rs lines 38-51, on the default rules
ApplyShouldWatch ==
    /\ probe.fn = "should_watch"
    /\ ~probe.done
    /\ Returned(should_watch(default_rules, probe.arg))

\* service.rs lines 361-367
ApplyFilterEfficiency ==
    /\ probe.fn = "filter_efficiency"
    /\ ~probe.done
    /\ Returned(filter_efficiency(probe.arg))

\* service.rs lines 370-376
ApplyThroughput ==
    /\ probe.fn = "throughput"
    /\ ~probe.done
    /\ Returned(throughput(probe.arg))

\* filter.rs lines 208-232
ApplyMatches ==
    /\ probe.fn = "matches"
    /\ ~probe.done
    /\ Returned(matches(probe.arg[1], probe.arg[2]))

\* filter.rs lines 24-29, 38-51: should_watch of a filter made with_rules
ApplyShouldWatchWithRules ==
    /\ probe.fn = "with_rules"
    /\ ~probe.done
    /\ Returned(should_watch(probe.arg[1], probe.arg[2]))

NextProbe ==
    \/ ApplySplitByPriority
    \/ ApplyClassifyByPath
    \/ ApplyValidate
    \/ ApplyShouldWatch
    \/ ApplyFilterEfficiency
    \/ ApplyThroughput
    \/ ApplyMatches
    \/ ApplyShouldWatchWithRules

SpecProbe == InitProbe /\ [][NextProbe]_vars

(***************************************************************************)
(* Claims.                                                                 *)
(***************************************************************************)
\* what the consumer can tell from a payload: its event_type
IsHighPayload(p) == p.event_type \in {"claude_state_changed", "git_commit"}

\* positions in `emitted` of the events of batch b, in emission order
EmittedOf(b) ==
    SelectSeq([k \in DOMAIN emitted |-> k],
              LAMBDA k : emitted[k].payload.id[1] = b)

\* batch b is still queued, or the task is in the middle of emitting it
Pending(b) ==
    \E c \in Channels :
        \/ \E k \in DOMAIN chan[c].queue :
               chan[c].queue[k].events[1].id[1] = b
        \/ \E e \in {chan[c].high[k] : k \in DOMAIN chan[c].high}
                    \cup {chan[c].normal[k] : k \in DOMAIN chan[c].normal} :
               e.id[1] = b

\* C1: within one batch every high-priority event (ClaudeStateChanged or
\* GitCommit) is emitted before any normal-priority event of that batch: no
\* high-priority payload follows a normal-priority payload of its batch,
\* and once a normal-priority event of a batch has been emitted every
\* high-priority event of the batch has been.
C1_HighBeforeNormal ==
    /\ \A i, j \in DOMAIN emitted :
          ( /\ i < j
            /\ emitted[i].payload.id[1] = emitted[j].payload.id[1]
            /\ IsHighPayload(emitted[j].payload) )
          => IsHighPayload(emitted[i].payload)
    /\ \A j \in DOMAIN emitted :
          ~IsHighPayload(emitted[j].payload) =>
             LET events == sent[emitted[j].payload.id[1]].batch.events
             IN  \A k \in DOMAIN events :
                    events[k].kind \in {"ClaudeStateChanged", "GitCommit"} =>
                       \E i \in 1..(j - 1) : emitted[i].payload.id = events[k].id

\* C1 witness: a batch that holds a normal-priority event ahead of a
\* high-priority one has been emitted completely
C1_Witness ==
    \E b \in DOMAIN sent :
        LET events == sent[b].batch.events
        IN  /\ Len(events) = 2
            /\ events[1].kind = "SourceChanged"
            /\ events[2].kind = "ClaudeStateChanged"
            /\ Len(EmittedOf(b)) = 2

\* C2: the batches of a channel are dispatched in the order they were sent:
\* on one channel no event of an earlier batch is emitted after an event of
\* a later batch, whatever their priorities.
C2_BatchesInChannelOrder ==
    \A i, j \in DOMAIN emitted :
        (i < j /\ emitted[i].ch = emitted[j].ch)
        => emitted[i].payload.id[1] <= emitted[j].payload.id[1]

\* C2 witness: a normal-priority event of an earlier batch was emitted
\* ahead of a high-priority event of a later batch of the same channel
C2_Witness ==
    \E i, j \in DOMAIN emitted :
        /\ i < j
        /\ emitted[i].ch = emitted[j].ch
        /\ emitted[i].payload.id[1] < emitted[j].payload.id[1]
        /\ ~IsHighPayload(emitted[i].payload)
        /\ IsHighPayload(emitted[j].payload)

\* indexes of the events of batch b whose priority class is `high`, ascending
ClassIndexes(b, high) ==
    LET events == sent[b].batch.events
    IN  SelectSeq([k \in DOMAIN events |-> k],
                  LAMBDA k : (events[k].kind \in
                              {"ClaudeStateChanged", "GitCommit"}) = high)

\* indexes (in their batch) of the emitted events of batch b and class `high`
EmittedIndexes(b, high) ==
    LET at == SelectSeq(EmittedOf(b),
                        LAMBDA k : IsHighPayload(emitted[k].payload) = high)
    IN  [n \in DOMAIN at |-> emitted[at[n]].payload.id[2]]

StartCalled ==
    /\ pc = "idle"
    /\ ret' # ret
    /\ ret'.call = "start"

\* dispatch tasks that have not ended
LiveTasks == {c \in Channels : chan[c].task \in {"recv", "emit"}}

\* OS watches registered by any debouncer of the instance
AllWatches == UNION {chan[c].watches : c \in Channels}

\* the targets whose resolved path exists, as the latest start() found them
ExistingTargets == {t \in DOMAIN fs : fs[t] # "missing"}

\* C4: once start() has succeeded is_running() stays true until stop() is
\* called: the running flag goes from true to false only in a step of
\* stop(), under every interleaving with the dispatch tasks, also those
\* left over from a failed start or an earlier start/stop lifetime.
C4_RunningUntilStop ==
    [][(running /\ ~running') => ret'.call = "stop"]_vars

\* C5: after start() has returned an error (validation, debouncer creation
\* or watch registration) the instance has no registered OS watch, no live
\* dispatch task, and is_running() is false.
C5_FailedStartLeavesNothing ==
    ( /\ pc = "idle"
      /\ ret.call = "start"
      /\ ret.result \in {"invalid_config", "new_debouncer_failed",
                         "watch_failed"} )
    => /\ AllWatches = {}
       /\ LiveTasks = {}
       /\ ~running

\* C6: start() on an instance whose running flag is true returns "already
\* running" and changes nothing: counters, stored debouncer and watches,
\* channel sender, running flag, and no dispatch task is spawned.
C6_StartWhileRunning ==
    [][(StartCalled /\ running) =>
          /\ ret'.result = "already_running"
          /\ UNCHANGED <<stats, debouncer, event_tx, running, chan, pc>>]_vars

\* C6 witness: start() was rejected on a running instance that holds a
\* debouncer with a registered watch
C6_Witness ==
    /\ ret = [call |-> "start", result |-> "already_running"]
    /\ running
    /\ debouncer # 0
    /\ chan[debouncer].watches # {}

\* C7: start() with a configuration that fails validate() returns an error
\* before any resource is acquired: no channel, no dispatch task, no
\* debouncer, no OS watch, and the running flag stays false.
C7_InvalidConfigAcquiresNothing ==
    [][(StartCalled /\ ~running /\ validate(config) # "ok") =>
          /\ ret'.result = "invalid_config"
          /\ UNCHANGED <<event_tx, debouncer, chan, pc>>
          /\ ~running'
          /\ Created' = {}
          /\ LiveTasks' = {}
          /\ AllWatches' = {}]_vars

\* C7 witness: start() was rejected for a configuration with targets whose
\* debounce delay is out of range
C7_Witness ==
    /\ ret = [call |-> "start", result |-> "invalid_config"]
    /\ config.targets # <<>>
    /\ config.debounce_ms > 10000

\* C8: running becomes true only in the step of start() that follows the
\* complete registration loop, and in the state it reaches the debouncer of
\* this start is stored in the service and every target whose path exists
\* has a watch registered with the target's own recursive mode.
C8_RunningOnlyAfterRegistration ==
    [][(~running /\ running') =>
          /\ pc = "watch"
          /\ ti > Len(config.targets)
          /\ \A t \in DOMAIN fs : fs[t] # "denied"
          /\ debouncer' = cur
          /\ chan'[cur].deb = "live"
          /\ \A t \in ExistingTargets :
                [target |-> t,
                 mode |-> IF config.targets[t].recursive THEN "Recursive"
                          ELSE "NonRecursive"] \in chan'[cur].watches]_vars

\* C8 witness: the service runs with a recursive and a non-recursive watch
C8_Witness ==
    /\ running
    /\ ret = [call |-> "start", result |-> "ok"]
    /\ \E w1, w2 \in chan[debouncer].watches :
          w1.mode = "Recursive" /\ w2.mode = "NonRecursive"

\* the first target for which watch() fails, 0 if there is none
FirstDenied ==
    LET d == {t \in DOMAIN fs : fs[t] = "denied"}
    IN  IF d = {} THEN 0 ELSE CHOOSE t \in d : \A u \in d : t <= u

\* C9: if watch() fails for a target whose path exists, start() returns an
\* error, no later target is registered, the debouncer is not stored in the
\* service and the service does not become Running.
C9_WatchFailureAbortsStart ==
    ( /\ pc = "idle"
      /\ ret.call = "start"
      /\ ret.result \in {"ok", "watch_failed"}
      /\ FirstDenied # 0 )
    => /\ ret.result = "watch_failed"
       /\ \A k \in DOMAIN watchCalls : watchCalls[k].target <= FirstDenied
       /\ watchCalls[Len(watchCalls)].target = FirstDenied
       /\ debouncer # cur
       /\ chan[cur].deb = "dropped"
       /\ chan[cur].watches = {}
       /\ ~running

\* C9 witness: watch() failed for the second target after the first target
\* had been registered
C9_Witness ==
    /\ pc = "idle"
    /\ ret = [call |-> "start", result |-> "watch_failed"]
    /\ Len(fs) = 2
    /\ fs[1] = "ok"
    /\ fs[2] = "denied"
    /\ Len(watchCalls) = 2

\* C10: a target whose path does not exist is skipped without error:
\* start() succeeds if and only if watch() fails for no existing target,
\* and then the registered watches are exactly those of the existing
\* targets (none at all when every target is missing).
C10_MissingTargetsSkipped ==
    ( /\ pc = "idle"
      /\ ret.call = "start"
      /\ ret.result \in {"ok", "watch_failed"} )
    => /\ (ret.result = "ok") <=> (FirstDenied = 0)
       /\ ret.result = "ok" =>
             /\ debouncer = cur
             /\ {w.target : w \in chan[cur].watches} = ExistingTargets
             /\ Cardinality(chan[cur].watches) = Cardinality(ExistingTargets)

\* C10 witness: start() succeeded with one target missing and one watched
C10_Witness ==
    /\ pc = "idle"
    /\ ret = [call |-> "start", result |-> "ok"]
    /\ \E t, u \in DOMAIN fs : fs[t] = "missing" /\ fs[u] = "ok"
    /\ Cardinality(chan[cur].watches) = 1


\* the batches sent on channel c
SentOn(c) == {b \in DOMAIN sent : sent[b].ch = c}

\* C11: a step of stop() on a running instance leaves is_running() false,
\* no stored debouncer (its OS watches gone with it) and no stored sender;
\* and a dispatch task ends only when the service's and the callback's
\* senders are both gone, nothing is queued, and every event of every
\* batch sent on its channel has been handed to emit_all.
C11_StopReleasesAndTaskDrains ==
    [][ /\ (running /\ ret'.call = "stop") =>
              /\ ~running'
              /\ debouncer' = 0
              /\ event_tx' = 0
              /\ debouncer # 0 => /\ chan'[debouncer].deb = "dropped"
                                  /\ chan'[debouncer].watches = {}
        /\ \A c \in Channels :
              (chan[c].task # "done" /\ chan'[c].task = "done") =>
                 /\ event_tx # c
                 /\ ~chan[c].cb
                 /\ chan[c].queue = <<>>
                 /\ \A b \in SentOn(c) :
                       Len(EmittedOf(b)) = Len(sent[b].batch.events)
      ]_vars

\* C11 witness: stop() has returned on an instance whose latest start()
\* registered its targets and succeeded, the callback's sender is gone as
\* well, and a batch is still queued for the task
C11_Witness ==
    /\ ret.call = "stop"
    /\ watchCalls # <<>>
    /\ \A t \in DOMAIN fs : fs[t] # "denied"
    /\ ~running
    /\ debouncer = 0
    /\ event_tx = 0
    /\ \E c \in Channels :
          /\ ~chan[c].cb
          /\ chan[c].task = "recv"
          /\ chan[c].queue # <<>>

\* C12: stop() is idempotent: called on an instance that is not running it
\* returns success and changes no field of the instance, no channel, task
\* or debouncer; and whatever state the instance is in, a second stop()
\* right after the first leaves what the first left.
C12_StopIdempotent ==
    /\ [](pc = "idle" =>
            LET once == stop(StopFields)
            IN  /\ ~running => once = StopFields
                /\ stop(once) = once)
    /\ [][(~running /\ ret' # ret /\ ret'.call = "stop") =>
             /\ ret'.result = "ok"
             /\ UNCHANGED <<config, fs, running, event_tx, debouncer, chan,
                            stats, pc, cur, ti, watchCalls, sent, emitted,
                            lastResult, probe, watcher_state>>
       ]_vars

\* C12 witness: stop() has returned on an instance that was not running but
\* still held the sender and the live task of a failed start()
C12_Witness ==
    /\ ret.call = "stop"
    /\ ~running
    /\ event_tx # 0
    /\ chan[event_tx].task = "recv"

\* C13: a delivery that fails does not count as emitted: events_emitted
\* equals the number of emit_all calls that succeeded (and the events after
\* a failed one are still handed to emit_all, see C3).
C13_FailedEmitNotCounted ==
    stats.events_emitted =
        Cardinality({i \in DOMAIN emitted : emitted[i].ok})

\* a step of the callback that was handed Ok(events)
CallbackOkStep ==
    /\ stats'.raw_events = stats.raw_events + 1
    /\ lastResult'.ok

\* the events of the batch the step puts on a channel, <<>> if it puts none
NewEvents ==
    IF sent' = sent THEN <<>> ELSE sent'[Len(sent')].batch.events

\* the paths of the model's changes that the default filter accepts
AcceptedPaths ==
    {p \in UNION {{ch.paths[k] : k \in DOMAIN ch.paths} : ch \in WideChanges} :
       should_watch(default_rules, p)}

\* the paths of a raw change that the default filter accepts, in order
Accepted(change) ==
    SelectSeq(change.paths, LAMBDA p : p \in AcceptedPaths)

\* every event of the model that is queued, being emitted, or on record as
\* sent, and the paths of every payload handed to emit_all
EventPaths ==
    UNION {{sent[b].batch.events[k].paths : k \in DOMAIN sent[b].batch.events} :
             b \in DOMAIN sent}
    \cup UNION {UNION {{q.events[k].paths : k \in DOMAIN q.events} :
                         q \in {chan[c].queue[n] : n \in DOMAIN chan[c].queue}} :
                  c \in Channels}
    \cup UNION {{chan[c].high[k].paths : k \in DOMAIN chan[c].high}
                \cup {chan[c].normal[k].paths : k \in DOMAIN chan[c].normal} :
                  c \in Channels}
    \cup {emitted[i].payload.paths : i \in DOMAIN emitted}

\* C14: every WatchEvent the callback builds, puts on the channel or the
\* task emits has at least one path; and a callback invocation raises
\* filtered_events by exactly one for each raw change all of whose paths the
\* filter rejects, and builds its events only from the other changes: each
\* event carries the accepted paths of one of them.
C14_EventsHavePaths ==
    /\ [](\A paths \in EventPaths : paths # <<>>)
    /\ [][CallbackOkStep =>
            LET events == lastResult'.events
                rejected == {i \in DOMAIN events : Accepted(events[i]) = <<>>}
            IN  /\ stats'.filtered_events =
                      stats.filtered_events + Cardinality(rejected)
                /\ Len(NewEvents) <= Len(events) - Cardinality(rejected)
                /\ \A k \in DOMAIN NewEvents :
                      \E i \in DOMAIN events \ rejected :
                          NewEvents[k].paths = Accepted(events[i])
       ]_vars

\* C14 witness: the latest burst held a change with two paths that were both
\* rejected next to a change of which one path was accepted, filtered_events
\* is 1, and the one event built has been emitted
C14_Witness ==
    /\ lastResult.ok
    /\ Len(lastResult.events) = 2
    /\ \E i, j \in DOMAIN lastResult.events :
          /\ Len(lastResult.events[i].paths) = 2
          /\ Accepted(lastResult.events[i]) = <<>>
          /\ Len(Accepted(lastResult.events[j])) = 1
          /\ Len(lastResult.events[j].paths) = 2
    /\ stats.raw_events = 1
    /\ stats.filtered_events = 1
    /\ Len(emitted) = 1
    /\ emitted[1].payload.paths = <<PathReadme>>

\* C15: the callback never waits for the consumer: whenever the closure of
\* a channel can be invoked, whatever the dispatch task is doing (also in
\* the middle of a delivery that never returns) and however many batches
\* are queued, an invocation with Ok(events) can run to completion; and an
\* invocation that built at least one event has put its batch at the end of
\* the queue when it returns.
C15_CallbackNeverBlocks ==
    /\ [](\A c \in Channels :
            ( /\ chan[c].cb
              /\ chan[c].deb = "live"
              /\ chan[c].watches # {}
              /\ stats.raw_events < MaxCallbacks
              /\ Ops < MaxOps )
            => ENABLED CallbackOk(c))
    /\ [][( /\ CallbackOkStep
            /\ \E i \in DOMAIN lastResult'.events :
                  /\ Accepted(lastResult'.events[i]) # <<>>
                  /\ lastResult'.events[i].kind # "Access" )
          => /\ NewEvents # <<>>
             /\ \E c \in Channels :
                   chan'[c].queue =
                       Append(chan[c].queue, sent'[Len(sent')].batch)
       ]_vars

\* C15 witness: the task has taken the first batch and not got its first
\* delivery done, and the second batch the callback built is on the queue
C15_Witness ==
    \E c \in Channels :
        /\ chan[c].task = "emit"
        /\ emitted = <<>>
        /\ Len(chan[c].queue) = 1
        /\ Len(sent) = 2

\* C16: none of the five counters ever decreases, whatever start(), the
\* callback, the dispatch task, get_stats(), emit_stats() and stop() do and
\* in whatever order, a start() after a stop() included.
C16_CountersNeverDecrease ==
    [][ /\ stats'.raw_events >= stats.raw_events
        /\ stats'.processed_events >= stats.processed_events
        /\ stats'.filtered_events >= stats.filtered_events
        /\ stats'.events_emitted >= stats.events_emitted
        /\ stats'.errors >= stats.errors ]_vars

\* C16 witness: a second start() has succeeded after the first lifetime
\* handled a burst, and get_stats() returns the counts of the first lifetime
C16_Witness ==
    /\ ret.call = "get_stats"
    /\ running
    /\ debouncer = 2
    /\ chan[1].deb = "dropped"
    /\ sent # <<>>
    /\ sent[1].ch = 1
    /\ ret.snapshot.raw_events = 1
    /\ ret.snapshot.processed_events >= 1
    /\ ret.snapshot.events_emitted >= 1

\* positions, in the batch they came from, of a list of numbered events
Positions(events) == [k \in DOMAIN events |-> events[k].id[2]]

\* a list of positions is strictly ascending
Ascending(ps) == \A i, j \in DOMAIN ps : i < j => ps[i] < ps[j]

\* C17: split_by_priority is an exhaustive, stable partition: the two lists
\* together are as long as the batch, every event of the first list is of
\* kind ClaudeStateChanged or GitCommit and no event of the second is, each
\* event of either list is the batch's event at the position it came from,
\* and each list keeps the batch's order.
C17_SplitIsStablePartition ==
    (probe.fn = "split_by_priority" /\ probe.done) =>
        LET events == probe.arg.events
            high == probe.out[1]
            normal == probe.out[2]
        IN  /\ Len(high) + Len(normal) = Len(events)
            /\ \A k \in DOMAIN high :
                  /\ high[k].kind \in {"ClaudeStateChanged", "GitCommit"}
                  /\ high[k] = events[high[k].id[2]]
            /\ \A k \in DOMAIN normal :
                  /\ normal[k].kind \notin {"ClaudeStateChanged", "GitCommit"}
                  /\ normal[k] = events[normal[k].id[2]]
            /\ Ascending(Positions(high))
            /\ Ascending(Positions(normal))

\* C17 witness: a batch <<GitCommit, Modified, ClaudeStateChanged>> has been
\* split into two high-priority events and one normal-priority event
C17_Witness ==
    /\ probe.fn = "split_by_priority"
    /\ probe.done
    /\ Len(probe.arg.events) = 3
    /\ probe.arg.events[1].kind = "GitCommit"
    /\ probe.arg.events[2].kind = "Modified"
    /\ probe.arg.events[3].kind = "ClaudeStateChanged"
    /\ Len(probe.out[1]) = 2
    /\ Len(probe.out[2]) = 1

\* the path ends with a dot and one of the extensions
HasExtension(path, extensions) ==
    \E e \in extensions : EndsWith(path, <<".">> \o e)

ConfigExtensions == {<<"t", "o", "m", "l">>, <<"j", "s", "o", "n">>, <<"y", "a", "m", "l">>, <<"y", "m", "l">>, <<"e", "n", "v">>}

SourceExtensions == {<<"r", "s">>, <<"t", "s">>, <<"t", "s", "x">>, <<"j", "s">>, <<"j", "s", "x">>}

\* the path is one the git rule takes for a git ref: it contains
\* /.git/refs/heads/ or /.git/HEAD
IsGitRef(path) ==
    \/ Contains(path, <<"/", ".", "g", "i", "t", "/", "r", "e", "f", "s", "/", "h", "e", "a", "d", "s", "/">>)
    \/ Contains(path, <<"/", ".", "g", "i", "t", "/", "H", "E", "A", "D">>)

\* C18: classify_by_path applies its rules in a fixed order and the first
\* that matches decides: ClaudeStateChanged for a path containing /.claude/
\* whatever else matches; otherwise GitCommit for a git-ref path whatever
\* its extension; otherwise ConfigChanged for a configuration extension;
\* otherwise SourceChanged for a source extension; otherwise the base kind.
C18_ClassifyPrecedence ==
    (probe.fn = "classify_by_path" /\ probe.done) =>
        LET base_kind == probe.arg[1]
            path == probe.arg[2]
        IN  probe.out =
              IF Contains(path, <<"/", ".", "c", "l", "a", "u", "d", "e", "/">>) THEN "ClaudeStateChanged"
              ELSE IF IsGitRef(path) THEN "GitCommit"
              ELSE IF HasExtension(path, ConfigExtensions)
                   THEN "ConfigChanged"
              ELSE IF HasExtension(path, SourceExtensions)
                   THEN "SourceChanged"
              ELSE base_kind

\* C18 witness: a git-ref path with a configuration extension has been
\* classified GitCommit from the base kind Modified
C18_Witness ==
    /\ probe.fn = "classify_by_path"
    /\ probe.done
    /\ probe.arg = <<"Modified", PathGitRefJson>>
    /\ probe.out = "GitCommit"

\* C19: validate() returns an error exactly when the target list is empty,
\* debounce_ms is 0, or debounce_ms is greater than 10000; every
\* configuration with at least one target and debounce_ms from 1 to 10000,
\* 10000 included, is accepted.
C19_ValidateExactly ==
    (probe.fn = "validate" /\ probe.done) =>
        LET cfg == probe.arg
            bad == \/ Len(cfg.targets) = 0
                   \/ cfg.debounce_ms = 0
                   \/ cfg.debounce_ms > 10000
        IN  /\ bad <=> probe.out # "ok"
            /\ ( /\ Len(cfg.targets) >= 1
                 /\ cfg.debounce_ms \in 1..10000 ) => probe.out = "ok"

\* C19 witness: a configuration with one target and debounce_ms = 10000 has
\* been accepted
C19_Witness ==
    /\ probe.fn = "validate"
    /\ probe.done
    /\ Len(probe.arg.targets) = 1
    /\ probe.arg.debounce_ms = 10000
    /\ probe.out = "ok"

\* the substrings excepted from the hidden-file rule
HiddenExceptions ==
    {<<".", "c", "l", "a", "u", "d", "e">>, <<".", "g", "i", "t">>, <<".", "e", "n", "v">>, <<".", "g", "i", "t", "i", "g", "n", "o", "r", "e">>, <<".", "g", "i", "t", "h", "u", "b">>}

\* should_watch has been applied to a path whose file name starts with '.'
DotFileProbed ==
    /\ probe.fn = "should_watch"
    /\ probe.done
    /\ StartsWith(FileName(probe.arg), <<".">>)

\* C20 as stated: a path whose file name starts with '.' is watched if the
\* file name contains .claude, .git, .env, .gitignore or .github, and is not
\* watched if the file name contains none of them.
C20_HiddenByFileName ==
    DotFileProbed =>
        ( probe.out <=>
            \E ex \in HiddenExceptions : Contains(FileName(probe.arg), ex) )

\* C20 amended: a path whose file name starts with '.' is watched exactly
\* when the path, anywhere in it and not only in its file name, contains
\* .claude, .git, .env, .gitignore or .github and none of the other default
\* rules matches it; a dot-file whose path contains none of the five is
\* never watched.
C20_HiddenByPath ==
    DotFileProbed =>
        ( probe.out <=>
            /\ \E ex \in HiddenExceptions : Contains(probe.arg, ex)
            /\ \A i \in DOMAIN default_rules :
                  default_rules[i].kind # "Hidden"
                  => ~matches(default_rules[i], probe.arg) )

\* C20 witness: a dot-file whose name holds none of the five substrings has
\* been found watched because it lies under /.claude/
C20_Witness ==
    /\ DotFileProbed
    /\ probe.arg = <<"/", "p", "/", ".", "c", "l", "a", "u", "d", "e", "/", ".", "h", "i", "d", "d", "e", "n">>
    /\ probe.out


\* should_watch has been applied to the path probe.arg
ShouldWatchProbed ==
    /\ probe.fn = "should_watch"
    /\ probe.done

\* C21 as stated: should_watch is false for every path that contains
\* node_modules, /target/, /dist/, .tmp, .DS_Store, /.idea/ or
\* /.git/objects/.
C21_NoiseContained ==
    ShouldWatchProbed =>
        ( (\E s \in {<<"n", "o", "d", "e", "_", "m", "o", "d", "u", "l", "e", "s">>, <<"/", "t", "a", "r", "g", "e", "t", "/">>, <<"/", "d", "i", "s", "t", "/">>, <<".", "t", "m", "p">>,
                     <<".", "D", "S", "_", "S", "t", "o", "r", "e">>, <<"/", ".", "i", "d", "e", "a", "/">>, <<"/", ".", "g", "i", "t", "/", "o", "b", "j", "e", "c", "t", "s", "/">>} :
              Contains(probe.arg, s))
          => ~probe.out )

\* C21 amended: should_watch is false for every path that contains
\* node_modules, /target/, /dist/, /.idea/ or /.git/objects/ and for every
\* path that ends with .tmp or .DS_Store.
C21_NoiseFiltered ==
    ShouldWatchProbed =>
        ( ( \/ \E s \in {<<"n", "o", "d", "e", "_", "m", "o", "d", "u", "l", "e", "s">>, <<"/", "t", "a", "r", "g", "e", "t", "/">>, <<"/", "d", "i", "s", "t", "/">>,
                         <<"/", ".", "i", "d", "e", "a", "/">>, <<"/", ".", "g", "i", "t", "/", "o", "b", "j", "e", "c", "t", "s", "/">>} :
                  Contains(probe.arg, s)
            \/ \E s \in {<<".", "t", "m", "p">>, <<".", "D", "S", "_", "S", "t", "o", "r", "e">>} : EndsWith(probe.arg, s) )
          => ~probe.out )

\* C21 witness: a file ending in .tmp under /.claude/ has been found not
\* watched
C21_Witness ==
    /\ ShouldWatchProbed
    /\ probe.arg = <<"/", "p", "/", ".", "c", "l", "a", "u", "d", "e", "/", "a", ".", "t", "m", "p">>
    /\ ~probe.out

\* the paths C22 speaks of: under /.claude/, under /.git/refs/heads/, the
\* path /.git/HEAD, and files whose name does not start with a dot
WantedPath(path) ==
    \/ Contains(path, <<"/", ".", "c", "l", "a", "u", "d", "e", "/">>)
    \/ Contains(path, <<"/", ".", "g", "i", "t", "/", "r", "e", "f", "s", "/", "h", "e", "a", "d", "s", "/">>)
    \/ EndsWith(path, <<"/", ".", "g", "i", "t", "/", "H", "E", "A", "D">>)
    \/ ~StartsWith(FileName(path), <<".">>)

\* a default rule other than the hidden-files rule applies to the path
NoiseRuleApplies(path) ==
    \/ \E s \in {<<"n", "o", "d", "e", "_", "m", "o", "d", "u", "l", "e", "s">>, <<"/", "t", "a", "r", "g", "e", "t", "/">>, <<"/", "d", "i", "s", "t", "/">>, <<"/", "b", "u", "i", "l", "d", "/">>,
                 <<"/", ".", "n", "e", "x", "t", "/">>, <<"/", "o", "u", "t", "/">>, <<"/", ".", "i", "d", "e", "a", "/">>, <<"/", ".", "v", "s", "c", "o", "d", "e", "/">>,
                 <<"/", ".", "v", "s", "/">>, <<"/", ".", "g", "i", "t", "/", "o", "b", "j", "e", "c", "t", "s", "/">>, <<"/", ".", "g", "i", "t", "/", "l", "o", "g", "s", "/">>,
                 <<"/", "t", "e", "s", "t", "-", "r", "e", "s", "u", "l", "t", "s", "/">>, <<"/", "p", "l", "a", "y", "w", "r", "i", "g", "h", "t", "-", "r", "e", "p", "o", "r", "t", "/">>,
                 <<"/", "c", "o", "v", "e", "r", "a", "g", "e", "/">>} : Contains(path, s)
    \/ \E s \in {<<".", "t", "m", "p">>, <<".", "t", "e", "m", "p">>, <<".", "s", "w", "p">>, <<".", "s", "w", "o">>, <<".", "i", "m", "l">>,
                 <<".", "l", "o", "g">>, <<"p", "a", "c", "k", "a", "g", "e", "-", "l", "o", "c", "k", ".", "j", "s", "o", "n">>, <<"y", "a", "r", "n", ".", "l", "o", "c", "k">>,
                 <<"p", "n", "p", "m", "-", "l", "o", "c", "k", ".", "y", "a", "m", "l">>, <<"C", "a", "r", "g", "o", ".", "l", "o", "c", "k">>, <<".", "D", "S", "_", "S", "t", "o", "r", "e">>,
                 <<"T", "h", "u", "m", "b", "s", ".", "d", "b">>, <<"d", "e", "s", "k", "t", "o", "p", ".", "i", "n", "i">>} : EndsWith(path, s)
    \/ StartsWith(FileName(path), <<"~">>)

\* C22 as stated: should_watch is true for every path under /.claude/, every
\* path under /.git/refs/heads/, the path /.git/HEAD and every file that is
\* not hidden.
C22_WantedAlwaysWatched ==
    (ShouldWatchProbed /\ WantedPath(probe.arg)) => probe.out

\* C22 amended: for a path under /.claude/, under /.git/refs/heads/, the path
\* /.git/HEAD or a file that is not hidden, the hidden-files rule never
\* filters: should_watch is true exactly when no other default rule (build
\* artifact, temporary, lock, IDE, OS, git internals, log, test output)
\* applies to the path.
C22_WantedUnlessNoise ==
    (ShouldWatchProbed /\ WantedPath(probe.arg))
        => (probe.out <=> ~NoiseRuleApplies(probe.arg))

\* C22 witness: a branch head under /.git/refs/heads/ has been found watched
C22_Witness ==
    /\ ShouldWatchProbed
    /\ probe.arg = <<"/", "p", "/", ".", "g", "i", "t", "/", "r", "e", "f", "s", "/", "h", "e", "a", "d", "s", "/", "m", "a", "i", "n">>
    /\ probe.out

\* the step is a command that returns, with its result in ret'
CommandReturns(calls) ==
    /\ ret' # ret
    /\ ret'.call \in calls

\* C23: a start command issued while the global state holds a service is
\* rejected with 'already running' and starts nothing; stop, get-stats and emit-stats commands
\* issued while it holds none are rejected with 'not running'; and a
\* rejection leaves the global state and the service's fields, its channels
\* and counters as they were.
C23_RejectedCommands ==
    [][ /\ (CommandReturns({"start_watcher"}) /\ watcher_state.held)
            => ret'.result = "already_running"
        /\ watcher_state.held => (~watcher_state'.locked /\ pc' = "idle")
        /\ ( /\ CommandReturns({"stop_watcher", "get_watcher_stats",
                                "emit_watcher_stats"})
             /\ ~watcher_state.held )
            => ret'.result = "not_running"
        /\ ( /\ CommandReturns({"start_watcher", "stop_watcher",
                                "get_watcher_stats", "emit_watcher_stats"})
             /\ ret'.result \in {"already_running", "not_running"} )
            => /\ watcher_state.held <=> ret'.call = "start_watcher"
               /\ UNCHANGED <<watcher_state, config, running, event_tx,
                              debouncer, chan, stats, pc, sent, emitted>>
      ]_vars

\* C23 witness: a start command has been rejected while a running service
\* with a live dispatch task is held
C23_Witness ==
    /\ ret = [call |-> "start_watcher", result |-> "already_running"]
    /\ watcher_state.held
    /\ running
    /\ event_tx # 0
    /\ chan[event_tx].task # "done"

\* the batches on which the one change Create /p/src/a.rs was put
CreatedSourceBatches ==
    {b \in DOMAIN sent :
        /\ Len(sent[b].batch.events) = 1
        /\ sent[b].batch.events[1].paths = <<PathSrcMain>>}

\* C24: with the Testing preset started through the command layer, the
\* debounce callback for the creation of one source file under src/ puts
\* exactly one batch on the channel, holding exactly one event of kind
\* SourceChanged and source "source"; that event is handed to the consumer
\* at most once, and exactly once, as source_changed from "source", when the
\* batch is no longer pending.
C24_TestingPresetEndToEnd ==
    /\ [][ ( /\ config = WatcherPreset_Testing
             /\ CallbackOkStep
             /\ lastResult'.events =
                    <<[kind |-> "Create", paths |-> <<PathSrcMain>>]>> )
           => /\ Len(sent') = Len(sent) + 1
              /\ Len(NewEvents) = 1
              /\ sent'[Len(sent')].batch.total_events = 1
              /\ NewEvents[1].kind = "SourceChanged"
              /\ NewEvents[1].source = "source"
              /\ NewEvents[1].paths = <<PathSrcMain>>
         ]_vars
    /\ [](config = WatcherPreset_Testing =>
            \A b \in CreatedSourceBatches :
               /\ Len(EmittedOf(b)) <= 1
               /\ ~Pending(b) =>
                    /\ Len(EmittedOf(b)) = 1
                    /\ emitted[EmittedOf(b)[1]].payload.event_type =
                           "source_changed"
                    /\ emitted[EmittedOf(b)[1]].payload.source = "source")

\* C24 witness: the Testing preset is started with both folders watched and
\* the one event of the created source file has been handed to the consumer
C24_Witness ==
    /\ config = WatcherPreset_Testing
    /\ watcher_state.held
    /\ running
    /\ Len(watchCalls) = 2
    /\ lastResult.ok
    /\ lastResult.events = <<[kind |-> "Create", paths |-> <<PathSrcMain>>]>>
    /\ Len(sent) = 1
    /\ CreatedSourceBatches = {1}
    /\ Len(emitted) = 1
    /\ emitted[1].ok
    /\ emitted[1].payload.event_type = "source_changed"
    /\ emitted[1].payload.source = "source"

\* the fraction x is a finite number and equals num / den * 100
IsPercentage(x, num, den) ==
    /\ x.den > 0
    /\ x.num * den = num * 100 * x.den

\* C25: filter_efficiency is filtered_events / raw_events * 100 and 0 when
\* raw_events is 0; throughput is events_emitted / processed_events * 100
\* and 0 when processed_events is 0 (raw 100, filtered 60 gives 60;
\* processed 400, emitted 350 gives 87.5); the result is always a finite
\* number, no division by zero is made.
C25_Percentages ==
    /\ (probe.fn = "filter_efficiency" /\ probe.done) =>
          LET s == probe.arg
          IN  /\ probe.out.den > 0
              /\ s.raw_events = 0 => probe.out.num = 0
              /\ s.raw_events # 0 =>
                    IsPercentage(probe.out, s.filtered_events, s.raw_events)
              /\ (s.raw_events = 100 /\ s.filtered_events = 60) =>
                    probe.out = [num |-> 60, den |-> 1]
    /\ (probe.fn = "throughput" /\ probe.done) =>
          LET s == probe.arg
          IN  /\ probe.out.den > 0
              /\ s.processed_events = 0 => probe.out.num = 0
              /\ s.processed_events # 0 =>
                    IsPercentage(probe.out, s.events_emitted,
                                 s.processed_events)
              /\ (s.processed_events = 400 /\ s.events_emitted = 350) =>
                    probe.out = [num |-> 175, den |-> 2]

\* C25 witness: the throughput of 350 emitted out of 400 processed has been
\* computed as 87.5
C25_Witness ==
    /\ probe.fn = "throughput"
    /\ probe.done
    /\ probe.arg.processed_events = 400
    /\ probe.arg.events_emitted = 350
    /\ probe.arg.raw_events = 0
    /\ probe.out = [num |-> 175, den |-> 2]

\* a step in which a debounce callback ran: nothing but the counters, the
\* record of the invocation and, when a batch was sent, the queue changes
CallbackInvoked ==
    /\ ret' = ret
    /\ pc' = pc
    /\ ti' = ti
    /\ emitted' = emitted
    /\ sent' # sent \/ chan' = chan

\* C26: each callback invocation handed Ok(events) raises raw_events by
\* exactly one, however many changes it carries, and processed_events by
\* exactly the number of changes it carries; so over any sequence of such
\* invocations the two have grown by the number of invocations and by the
\* total number of changes.
C26_RawPerBurstProcessedPerChange ==
    /\ [][ (CallbackInvoked /\ lastResult'.ok) =>
              /\ stats'.raw_events = stats.raw_events + 1
              /\ stats'.processed_events =
                     stats.processed_events + Len(lastResult'.events)
         ]_vars
    /\ [](stats.errors = 0 =>
            /\ stats.raw_events <= stats.processed_events
            /\ stats.processed_events <= MaxBurst * stats.raw_events)

\* C26 witness: two invocations, one with one change and one with two, have
\* been counted as 2 raw events and 3 processed events
C26_Witness ==
    /\ stats.raw_events = 2
    /\ stats.processed_events = 3
    /\ stats.errors = 0
    /\ lastResult.ok
    /\ Len(lastResult.events) = 2

\* C27 as stated: a callback invocation that reports errors changes only the
\* errors counter: raw_events, processed_events, filtered_events and
\* events_emitted stay as they are (raw_events being incremented by the
\* success branch only).
C27_ErrorLeavesRawEvents ==
    [][ (CallbackInvoked /\ ~lastResult'.ok) =>
           /\ stats'.errors > stats.errors
           /\ stats'.raw_events = stats.raw_events
           /\ stats'.processed_events = stats.processed_events
           /\ stats'.filtered_events = stats.filtered_events
           /\ stats'.events_emitted = stats.events_emitted
      ]_vars

\* C28: a callback invocation that reports a list of errors raises errors by
\* exactly the length of the list and puts no batch on any channel; it does
\* not stop the service: the running flag, the stored sender and debouncer,
\* and every channel with its closure, watches and dispatch task are as
\* before, so that whatever invocation was possible before it is possible
\* after it.
C28_ErrorsCountedServiceGoesOn ==
    [][ (CallbackInvoked /\ ~lastResult'.ok) =>
           /\ stats'.errors = stats.errors + lastResult'.errors
           /\ sent' = sent
           /\ chan' = chan
           /\ running' = running
           /\ event_tx' = event_tx
           /\ debouncer' = debouncer
           /\ stats'.processed_events = stats.processed_events
           /\ stats'.filtered_events = stats.filtered_events
           /\ stats'.events_emitted = stats.events_emitted
      ]_vars

\* C28 witness: on a running service an invocation that reported two errors
\* was followed by an invocation whose batch has been sent and emitted
C28_Witness ==
    /\ running
    /\ stats.errors = 2
    /\ stats.raw_events = 2
    /\ lastResult.ok
    /\ Len(sent) = 1
    /\ Len(emitted) = 1

\* the changes of a burst all of whose paths the filter rejects (a change
\* without paths among them), as positions in the burst
RejectedChanges(events) ==
    {i \in DOMAIN events : Accepted(events[i]) = <<>>}

AccessChanges(events) ==
    {i \in DOMAIN events : events[i].kind = "Access"}

\* C29 as stated: an Access change, whatever its paths, produces no event
\* and is not counted as a filtered event: filtered_events grows by the
\* number of the other changes whose paths are all rejected, and events are
\* built from the other changes only.
C29_AccessNeverCounted ==
    [][ (CallbackInvoked /\ lastResult'.ok) =>
           LET events == lastResult'.events
           IN  /\ stats'.filtered_events = stats.filtered_events +
                     Cardinality(RejectedChanges(events)
                                 \ AccessChanges(events))
               /\ Len(NewEvents) =
                     Cardinality(DOMAIN events \
                        (RejectedChanges(events) \cup AccessChanges(events)))
      ]_vars

\* C29 amended: an Access change never produces a WatchEvent and contributes
\* nothing to the batch; the filter is applied to it first, so it is counted
\* as a filtered event exactly when all of its paths are rejected, like a
\* change of any other kind.
C29_AccessFilteredFirst ==
    [][ (CallbackInvoked /\ lastResult'.ok) =>
           LET events == lastResult'.events
           IN  /\ stats'.filtered_events = stats.filtered_events +
                     Cardinality(RejectedChanges(events))
               /\ Len(NewEvents) =
                     Cardinality(DOMAIN events \
                        (RejectedChanges(events) \cup AccessChanges(events)))
               /\ AccessChanges(events) = DOMAIN events => sent' = sent
      ]_vars

\* C29 witness: a burst of two Access changes, one on a rejected path and one
\* on an accepted path, has been counted as one filtered event and has put
\* nothing on the channel
C29_Witness ==
    /\ lastResult.ok
    /\ Len(lastResult.events) = 2
    /\ AccessChanges(lastResult.events) = {1, 2}
    /\ Cardinality(RejectedChanges(lastResult.events)) = 1
    /\ stats.raw_events = 1
    /\ stats.processed_events = 2
    /\ stats.filtered_events = 1
    /\ sent = <<>>

\* the positions of a burst's changes that become events, in order: at
\* least one accepted path and a kind other than Access
BuiltFrom(events) ==
    SelectSeq([i \in DOMAIN events |-> i],
              LAMBDA i : Accepted(events[i]) # <<>>
                         /\ events[i].kind # "Access")

\* the base kind C30 gives for a raw kind
BaseKind(raw_kind) ==
    IF raw_kind = "Create" THEN "Created"
    ELSE IF raw_kind = "Modify" THEN "Modified"
    ELSE IF raw_kind = "Remove" THEN "Deleted"
    ELSE "Other"

\* the source C30 gives for a path: the first of the four substrings found
SourceOf(path) ==
    LET marks == << <<<<"/", ".", "c", "l", "a", "u", "d", "e", "/">>, "claude">>, <<<<"/", ".", "g", "i", "t", "/">>, "git">>,
                    <<<<"/", "s", "r", "c", "/">>, "source">>, <<<<"/", "t", "e", "s", "t", "s", "/">>, "tests">> >>
        found == {k \in DOMAIN marks : Contains(path, marks[k][1])}
    IN  IF found = {} THEN "project"
        ELSE marks[CHOOSE k \in found : \A j \in found : k <= j][2]

\* what C30 says of the event built from each change of the model that has
\* a surviving path: its paths, kind and source
ExpectedEvents ==
    {<<change,
       [paths |-> Accepted(change),
        kind |-> classify_by_path(BaseKind(change.kind), Accepted(change)[1]),
        source |-> SourceOf(Accepted(change)[1])]>> :
        change \in {ch \in WideChanges : Accepted(ch) # <<>>}}

Expected(change) == (CHOOSE p \in ExpectedEvents : p[1] = change)[2]

\* C30: a callback invocation builds exactly one WatchEvent for each raw
\* change that has a surviving path and is not an Access, in the order of
\* the changes; the event carries all surviving paths in their original
\* order, its kind is classify_by_path(base, first surviving path) with base
\* Created for Create, Modified for Modify, Deleted for Remove and Other for
\* anything else, and its source is the first match on the first surviving
\* path of /.claude/ -> claude, /.git/ -> git, /src/ -> source,
\* /tests/ -> tests, else project.
C30_EventConstruction ==
    [][ (CallbackInvoked /\ lastResult'.ok) =>
           LET events == lastResult'.events
               from == BuiltFrom(events)
           IN  /\ Len(NewEvents) = Len(from)
               /\ \A k \in DOMAIN from :
                     LET expected == Expected(events[from[k]])
                     IN  /\ NewEvents[k].paths = expected.paths
                         /\ NewEvents[k].kind = expected.kind
                         /\ NewEvents[k].source = expected.source
      ]_vars

\* C30 witness: a burst of a Create on /p/src/tests/t.rs and a .claude file
\* and of a change of another kind on a git ref and a source file has been
\* sent as two events: SourceChanged from "source" with both paths, and
\* GitCommit from "git"
C30_Witness ==
    /\ lastResult.ok
    /\ Len(lastResult.events) = 2
    /\ Len(sent) = 1
    /\ LET built == sent[1].batch.events
       IN  /\ Len(built) = 2
           /\ built[1].paths = <<<<"/", "p", "/", "s", "r", "c", "/", "t", "e", "s", "t", "s", "/", "t", ".", "r", "s">>, PathClaudeState>>
           /\ built[1].kind = "SourceChanged"
           /\ built[1].source = "source"
           /\ built[2].paths = <<PathGitRef, PathSrcMain>>
           /\ built[2].kind = "GitCommit"
           /\ built[2].source = "git"

\* the batches queued on any channel
QueuedBatches ==
    UNION {{chan[c].queue[n] : n \in DOMAIN chan[c].queue} : c \in Channels}

\* the number of batches queued on all channels
QueuedCount(ch) ==
    LET RECURSIVE sum(_)
        sum(c) == IF c = 0 THEN 0 ELSE Len(ch[c].queue) + sum(c - 1)
    IN  sum(MaxStarts)

\* C31: one callback invocation puts at most one batch on the channel; the
\* batch holds the events of that invocation in the order of their raw
\* changes, and none is sent when no event was built; so every batch queued
\* or on record as sent is non-empty and its total_events is the number of
\* events it holds.
C31_OneNonEmptyBatch ==
    /\ [][ CallbackInvoked =>
              /\ QueuedCount(chan') <= QueuedCount(chan) + 1
              /\ sent' = sent \/ Len(sent') = Len(sent) + 1
              /\ lastResult'.ok =>
                    LET from == BuiltFrom(lastResult'.events)
                    IN  /\ (sent' = sent) <=> (from = <<>>)
                        /\ Len(NewEvents) = Len(from)
                        /\ \A k \in DOMAIN from :
                              NewEvents[k].paths =
                                  Accepted(lastResult'.events[from[k]])
         ]_vars
    /\ [](\A batch \in QueuedBatches \cup {sent[b].batch : b \in DOMAIN sent} :
             /\ batch.events # <<>>
             /\ batch.total_events = Len(batch.events))

\* C31 witness: an invocation whose two changes were both filtered out has
\* sent nothing, after an invocation whose two changes became one batch of
\* two events that is still queued
C31_Witness ==
    /\ stats.raw_events = 2
    /\ lastResult.ok
    /\ Len(lastResult.events) = 2
    /\ BuiltFrom(lastResult.events) = <<>>
    /\ Len(sent) = 1
    /\ sent[1].batch.total_events = 2
    /\ chan[1].queue = <<sent[1].batch>>

\* C32 as stated: for a path that does not contain /.claude/ (and a base
\* kind other than GitCommit), classify_by_path returns GitCommit if and
\* only if the path contains /.git/refs/heads/ or ends with /.git/HEAD; a
\* path in which /.git/HEAD is followed by further characters is not
\* GitCommit.
C32_GitHeadIsSuffix ==
    ( /\ probe.fn = "classify_by_path"
      /\ probe.done
      /\ probe.arg[1] # "GitCommit"
      /\ ~Contains(probe.arg[2], <<"/", ".", "c", "l", "a", "u", "d", "e", "/">>) )
    => ( probe.out = "GitCommit"
         <=> \/ Contains(probe.arg[2], <<"/", ".", "g", "i", "t", "/", "r", "e", "f", "s", "/", "h", "e", "a", "d", "s", "/">>)
             \/ EndsWith(probe.arg[2], <<"/", ".", "g", "i", "t", "/", "H", "E", "A", "D">>) )

\* the path contains one of the rule's exceptions
Excepted(rule, path) ==
    \E k \in DOMAIN rule.exceptions : Contains(path, rule.exceptions[k])

\* the rule's pattern applies to the path, by the rule's match type: a
\* substring, a suffix of the path, or a prefix of its last component
PatternApplies(rule, path) ==
    \/ rule.match_type = "Contains" /\ Contains(path, rule.pattern)
    \/ rule.match_type \in {"Extension", "EndsWith"}
          /\ EndsWith(path, rule.pattern)
    \/ rule.match_type = "StartsWith"
          /\ StartsWith(FileName(path), rule.pattern)

\* C33: a path that contains an exception of a rule is never matched by that
\* rule, whatever its pattern says, and a rule without an exception in the
\* path matches by its pattern; the exception makes only that rule inert:
\* the path is filtered exactly when some rule of the filter, not excepted
\* for it, applies.  With the default filter a path under /.claude/ ending
\* in .tmp or .log is filtered.
C33_ExceptionsPerRule ==
    /\ (probe.fn = "matches" /\ probe.done) =>
          /\ Excepted(probe.arg[1], probe.arg[2]) => ~probe.out
          /\ ~Excepted(probe.arg[1], probe.arg[2]) =>
                (probe.out <=> PatternApplies(probe.arg[1], probe.arg[2]))
    /\ (probe.fn = "with_rules" /\ probe.done) =>
          LET rules == probe.arg[1]
              path == probe.arg[2]
          IN  ~probe.out <=>
                 \E i \in DOMAIN rules :
                    ~Excepted(rules[i], path) /\ PatternApplies(rules[i], path)
    /\ ( /\ ShouldWatchProbed
         /\ Contains(probe.arg, <<"/", ".", "c", "l", "a", "u", "d", "e", "/">>)
         /\ EndsWith(probe.arg, <<".", "t", "m", "p">>) \/ EndsWith(probe.arg, <<".", "l", "o", "g">>) )
       => ~probe.out

\* C33 witness: /p/dist/keep/a.tmp has been found filtered by a filter of a
\* /dist/ rule with the exception keep, which is inert for it, and a tmp
\* rule with the exception .claude, which applies
C33_Witness ==
    /\ probe.fn = "with_rules"
    /\ probe.done
    /\ probe.arg[2] = <<"/", "p", "/", "d", "i", "s", "t", "/", "k", "e", "e", "p", "/", "a", ".", "t", "m", "p">>
    /\ Len(probe.arg[1]) = 2
    /\ probe.arg[1][1].pattern = <<"/", "d", "i", "s", "t", "/">>
    /\ Excepted(probe.arg[1][1], probe.arg[2])
    /\ probe.arg[1][2].pattern = <<".", "t", "m", "p">>
    /\ ~Excepted(probe.arg[1][2], probe.arg[2])
    /\ ~probe.out

\* the lists that hold the rules of `rules` in any order
Reorderings(rules) ==
    {perm \in RuleLists :
        /\ Len(perm) = Len(rules)
        /\ {perm[i] : i \in DOMAIN perm} = {rules[i] : i \in DOMAIN rules}}

\* C34: should_watch(path) is true if and only if no rule of the filter
\* matches the path, so the filter made of the same rules in any other order
\* gives the same answer for the path.
C34_RuleOrderIrrelevant ==
    (probe.fn = "with_rules" /\ probe.done) =>
        LET rules == probe.arg[1]
            path == probe.arg[2]
        IN  /\ probe.out <=> ~\E i \in DOMAIN rules : matches(rules[i], path)
            /\ \A perm \in Reorderings(rules) :
                  should_watch(perm, path) = probe.out

\* C34 witness: /p/Cargo.lock has been found filtered by a filter of three
\* rules of which only the last matches it
C34_Witness ==
    /\ probe.fn = "with_rules"
    /\ probe.done
    /\ probe.arg[2] = <<"/", "p", "/", "C", "a", "r", "g", "o", ".", "l", "o", "c", "k">>
    /\ Len(probe.arg[1]) = 3
    /\ ~matches(probe.arg[1][1], probe.arg[2])
    /\ ~matches(probe.arg[1][2], probe.arg[2])
    /\ matches(probe.arg[1][3], probe.arg[2])
    /\ ~probe.out

\* the last component of a path, found by cutting at the last separator
\* after dropping trailing separators
LastComponent(path) ==
    LET RECURSIVE strip(_)
        strip(s) == IF s # <<>> /\ s[Len(s)] = "/"
                    THEN strip(SubSeq(s, 1, Len(s) - 1)) ELSE s
        t == strip(path)
        cuts == {i \in 1..Len(t) : t[i] = "/"}
        last == IF cuts = {} THEN 0 ELSE CHOOSE i \in cuts : \A j \in cuts : j <= i
    IN  SubSeq(t, last + 1, Len(t))

\* s occurs in path at position i
OccursAt(s, path, i) ==
    /\ i + Len(s) - 1 <= Len(path)
    /\ SubSeq(path, i, i + Len(s) - 1) = s

Enqueued(b, k) ==
    /\ b \in DOMAIN sent
    /\ k \in DOMAIN sent[b].batch.events

\* the emit_all calls made for event k of batch b
HandedOver(b, k) ==
    {i \in DOMAIN emitted : emitted[i].payload.id = <<b, k>>}

\* the events put on the channels so far
EnqueuedEvents ==
    LET RECURSIVE sum(_)
        sum(b) == IF b = 0 THEN 0 ELSE Len(sent[b].batch.events) + sum(b - 1)
    IN  sum(Len(sent))

\* nothing is queued and no task is in the middle of a batch
Drained ==
    \A c \in Channels : chan[c].queue = <<>> /\ chan[c].task # "emit"

\* C36: with tasks that are scheduled fairly and deliveries that return,
\* every event the callback has put on a channel is eventually handed to
\* emit_all, whatever start() and stop() do meanwhile; no event is handed
\* over twice, none that was not enqueued; and whenever the channels are
\* drained events_emitted equals the number of events enqueued so far.
C36_EveryEnqueuedEventDelivered ==
    /\ \A b \in 1..MaxCallbacks, k \in 1..MaxBurst :
          Enqueued(b, k) ~> (HandedOver(b, k) # {})
    /\ [](\A b \in 1..MaxCallbacks, k \in 1..MaxBurst :
             /\ Cardinality(HandedOver(b, k)) <= 1
             /\ HandedOver(b, k) # {} => Enqueued(b, k))
    /\ [](Drained => stats.events_emitted = EnqueuedEvents)

\* C36 witness: stop() has been called, two batches were sent, the task of
\* their channel has ended after both senders went away, and every event of
\* the two batches has been handed over, events_emitted counting them all
C36_Witness ==
    /\ ret.call = "stop"
    /\ ~running
    /\ Len(sent) = 2
    /\ EnqueuedEvents >= 3
    /\ chan[sent[2].ch].task = "done"
    /\ Drained
    /\ \A b \in DOMAIN sent : \A k \in DOMAIN sent[b].batch.events :
          HandedOver(b, k) # {}
    /\ stats.events_emitted = EnqueuedEvents

\* the channels whose debouncer is alive, one for each service that watches
LiveDebouncers == {c \in Channels : chan[c].deb = "live"}

\* C37: the lock serializes the commands: while a start command holds it no
\* other command returns, and the state is never both locked and holding a
\* service; a start command succeeds only on an empty state, which it leaves
\* holding its service, and the state is emptied only by a stop command that
\* succeeds, so of the start commands issued without a stop between them at
\* most one succeeds; at most one service is alive at any time; and a
\* service that is running or has a live debouncer is the one the state
\* holds or the one a start command still under the lock is starting.
C37_CommandsSerialized ==
    /\ [](~(watcher_state.held /\ watcher_state.locked))
    /\ [](Cardinality(LiveDebouncers) <= 1)
    /\ []((running \/ debouncer # 0 \/ LiveDebouncers # {})
             => (watcher_state.held \/ watcher_state.locked))
    /\ [][ /\ (watcher_state.locked /\ ret' # ret)
              => ret'.call \in {"start", "start_watcher"}
           /\ (CommandReturns({"start_watcher"}) /\ ret'.result = "ok")
              => /\ ~watcher_state.held
                 /\ watcher_state.locked
                 /\ watcher_state'.held
                 /\ running'
           /\ (~watcher_state.held /\ watcher_state'.held)
              => (CommandReturns({"start_watcher"}) /\ ret'.result = "ok")
           /\ (watcher_state.held /\ ~watcher_state'.held)
              => /\ CommandReturns({"stop_watcher"})
                 /\ ret'.result = "ok"
                 /\ ~running'
                 /\ LiveDebouncers' = {}
         ]_vars

\* C37 witness: a service was started, stopped by a stop command, and a
\* second one started; a further start command has been rejected, the
\* second service being the only one alive
C37_Witness ==
    /\ ret = [call |-> "start_watcher", result |-> "already_running"]
    /\ watcher_state.held
    /\ watcher_state.first = 2
    /\ running
    /\ LiveDebouncers = {2}
    /\ chan[1].deb = "dropped"

\* C38: a start command that fails returns with the state empty, one that
\* succeeds returns with the state holding its service, and a stop command
\* that succeeds returns with the state empty, no other step filling or
\* emptying it; a held service is always running, whatever the tasks of
\* earlier services do; and is_watcher_running returns true exactly when a
\* service is held.
C38_HeldBetweenStartAndStop ==
    /\ [](watcher_state.held => running)
    /\ [][ /\ CommandReturns({"start_watcher"})
              => (watcher_state'.held <=>
                     ret'.result \in {"ok", "already_running"})
           /\ ( /\ CommandReturns({"start_watcher"})
                /\ ret'.result \notin {"ok", "already_running"} )
              => /\ ~watcher_state.held
                 /\ ~watcher_state'.held
                 /\ ~watcher_state'.locked
           /\ (CommandReturns({"stop_watcher"}) /\ ret'.result = "ok")
              => (watcher_state.held /\ ~watcher_state'.held)
           /\ watcher_state'.held # watcher_state.held
              => /\ CommandReturns({"start_watcher", "stop_watcher"})
                 /\ ret'.result = "ok"
           /\ CommandReturns({"is_watcher_running"})
              => /\ ret'.result = "ok"
                 /\ ret'.value <=> watcher_state.held
         ]_vars

\* C38 witness: is_watcher_running has returned true on a held second
\* service after the dispatch task of the first, stopped service has ended
C38_Witness ==
    /\ ret.call = "is_watcher_running"
    /\ ret.value
    /\ watcher_state.held
    /\ watcher_state.first = 2
    /\ chan[1].task = "done"
    /\ running

\* C39 as stated: in every reachable state filtered_events is at most
\* raw_events, so that filter_efficiency of the counters lies between 0 and
\* 100.
C39_FilteredAtMostRaw ==
    /\ stats.filtered_events <= stats.raw_events
    /\ LET e == filter_efficiency(snapshot(stats))
       IN  /\ e.den > 0
           /\ 0 <= e.num
           /\ e.num <= 100 * e.den

\* every event the callback has put on a channel
BuiltEvents ==
    UNION {{sent[b].batch.events[k] : k \in DOMAIN sent[b].batch.events} :
              b \in DOMAIN sent}

\* the events the dispatch tasks hold as the high-priority part of a batch
HeldHigh ==
    UNION {{chan[c].high[k] : k \in DOMAIN chan[c].high} : c \in Channels}

\* C40: every event the callback has built of kind ClaudeStateChanged has
\* source "claude" and every one of kind GitCommit has source "git"; so
\* every event a dispatch task holds as high-priority, and every payload
\* handed to the consumer as claude_state_changed or git_commit, has source
\* "claude" or "git" respectively.
C40_KindAndSourceAgree ==
    /\ \A e \in BuiltEvents :
          /\ e.kind = "ClaudeStateChanged" => e.source = "claude"
          /\ e.kind = "GitCommit" => e.source = "git"
    /\ \A e \in HeldHigh : e.source \in {"claude", "git"}
    /\ \A i \in DOMAIN emitted :
          LET p == emitted[i].payload
          IN  /\ p.event_type = "claude_state_changed" => p.source = "claude"
              /\ p.event_type = "git_commit" => p.source = "git"
              /\ IsHighPayload(p) => p.source \in {"claude", "git"}

\* C40 witness: a git_commit from "git" and a claude_state_changed from
\* "claude" have both been handed to the consumer
C40_Witness ==
    /\ \E i \in DOMAIN emitted :
          /\ emitted[i].payload.event_type = "git_commit"
          /\ emitted[i].payload.source = "git"
    /\ \E i \in DOMAIN emitted :
          /\ emitted[i].payload.event_type = "claude_state_changed"
          /\ emitted[i].payload.source = "claude"
====
